---- MODULE Spec2Model ----
(***************************************************************************)
(* A model of wuzz (asciimoo/wuzz): the request lifecycle, the history,    *)
(* the popup slot and the focus index of App in wuzz.go, with the commands *)
(* of the key table.                                                       *)
(*                                                                         *)
(* Text is a sequence of tokens.  A token is one character of the text     *)
(* that matters to the code (a separator such as "=", "&", ":", a blank, a *)
(* line feed) or a run of other characters (a word such as "GET" or        *)
(* "http://h").                                                            *)
(***************************************************************************)
EXTENDS Integers, Sequences, FiniteSets, Bags, TLC

\* ------------------------------------------------------------------ bounds

\* submit commands in one run
MaxSubmits == 2
\* clearHistory commands in one run
MaxClears == 1
\* the lowest line the user moves a list popup's cursor to
MaxCy == 2
\* posted closures waiting for the event loop when the user gives a command that posts one
MaxPending == 1
\* key events given to the editors in one run
MaxKeys == 4

\* ------------------------------------------------------------------ text

SP == " "
NL == "\n"

IsSpace(c) == c \in {SP, NL}

RECURSIVE TrimLeft(_)
TrimLeft(s) ==
    IF s # <<>> /\ IsSpace(Head(s)) THEN TrimLeft(Tail(s)) ELSE s

RECURSIVE TrimRight(_)
TrimRight(s) ==
    IF s # <<>> /\ IsSpace(s[Len(s)]) THEN TrimRight(SubSeq(s, 1, Len(s) - 1)) ELSE s

\* strings.TrimSpace
TrimSpace(s) == TrimRight(TrimLeft(s))

\* strings.Replace(s, from, to, -1) for one-token from and to
Replace(s, from, to) == [i \in 1..Len(s) |-> IF s[i] = from THEN to ELSE s[i]]

\* the index of the first token of s equal to c, 0 when there is none
RECURSIVE IndexFrom(_, _, _)
IndexFrom(s, c, i) ==
    IF i > Len(s) THEN 0
    ELSE IF s[i] = c THEN i
    ELSE IndexFrom(s, c, i + 1)

Index(s, c) == IndexFrom(s, c, 1)

\* strings.Split(s, sep) for a one-token separator
RECURSIVE Split(_, _)
Split(s, sep) ==
    LET i == Index(s, sep) IN
    IF i = 0 THEN <<s>>
    ELSE <<SubSeq(s, 1, i - 1)>> \o Split(SubSeq(s, i + 1, Len(s)), sep)

\* the index of the first ": " (a colon followed by a blank) in s from i, 0 when none
RECURSIVE IndexColonSpace(_, _)
IndexColonSpace(s, i) ==
    IF i + 1 > Len(s) THEN 0
    ELSE IF s[i] = ":" /\ s[i + 1] = SP THEN i
    ELSE IndexColonSpace(s, i + 1)

\* strings.SplitN(header, ": ", 2)
SplitHeader(header) ==
    LET i == IndexColonSpace(header, 1) IN
    IF i = 0 THEN <<header>>
    ELSE <<SubSeq(header, 1, i - 1), SubSeq(header, i + 2, Len(header))>>

\* the order of the tokens in the byte order of their first character
TokenOrder == <<NL, SP, "%0A", "%2B", "%3A", "%3B", "%3D", "%3F", "%40", "&", "+",
                "1", "2", ":", ";", "=", "?", "@",
                "Content-Type", "GET", "POST", "X-K",
                "a", "b", "f", "http://h", "multipart/form-data", "v">>

Rank(c) == IF Index(TokenOrder, c) = 0 THEN Len(TokenOrder) + 1 ELSE Index(TokenOrder, c)

\* s < t as Go compares strings
RECURSIVE TextLess(_, _)
TextLess(s, t) ==
    IF t = <<>> THEN FALSE
    ELSE IF s = <<>> THEN TRUE
    ELSE IF Rank(Head(s)) # Rank(Head(t)) THEN Rank(Head(s)) < Rank(Head(t))
    ELSE TextLess(Tail(s), Tail(t))

\* ------------------------------------------------------------------ net/url

\* url.QueryUnescape of one token
UnescapeToken(c) ==
    CASE c = "+" -> SP
      [] c = "%0A" -> NL
      [] c = "%2B" -> "+"
      [] c = "%3A" -> ":"
      [] c = "%3B" -> ";"
      [] c = "%3D" -> "="
      [] c = "%3F" -> "?"
      [] c = "%40" -> "@"
      [] OTHER -> c

QueryUnescape(s) == [i \in 1..Len(s) |-> UnescapeToken(s[i])]

\* url.QueryEscape of one token
EscapeToken(c) ==
    CASE c = SP -> "+"
      [] c = NL -> "%0A"
      [] c = "+" -> "%2B"
      [] c = ":" -> "%3A"
      [] c = ";" -> "%3B"
      [] c = "=" -> "%3D"
      [] c = "?" -> "%3F"
      [] c = "@" -> "%40"
      [] OTHER -> c

QueryEscape(s) == [i \in 1..Len(s) |-> EscapeToken(s[i])]

\* url.Values.Add
ValuesAdd(m, k, v) ==
    IF k \in DOMAIN m THEN [m EXCEPT ![k] = Append(@, v)] ELSE m @@ (k :> <<v>>)

EmptyValues == [k \in {} |-> <<>>]

\* url.ParseQuery over the "&"-separated segments segs: the values parsed and
\* whether a segment was in error (a segment holding ";" is, and is left out)
RECURSIVE ParseSegments(_, _, _)
ParseSegments(segs, m, err) ==
    IF segs = <<>> THEN [vals |-> m, err |-> err]
    ELSE LET seg == Head(segs)
             eq == Index(seg, "=")
             key == IF eq = 0 THEN seg ELSE SubSeq(seg, 1, eq - 1)
             val == IF eq = 0 THEN <<>> ELSE SubSeq(seg, eq + 1, Len(seg))
         IN IF seg = <<>> THEN ParseSegments(Tail(segs), m, err)
            ELSE IF Index(seg, ";") # 0 THEN ParseSegments(Tail(segs), m, TRUE)
            ELSE ParseSegments(Tail(segs),
                               ValuesAdd(m, QueryUnescape(key), QueryUnescape(val)), err)

ParseQuery(s) == ParseSegments(Split(s, "&"), EmptyValues, FALSE)

\* the least text of a non-empty set of texts
MinText(S) == CHOOSE s \in S : \A t \in S : ~TextLess(t, s)

RECURSIVE JoinTexts(_, _)
JoinTexts(ts, sep) ==
    IF ts = <<>> THEN <<>>
    ELSE IF Len(ts) = 1 THEN Head(ts)
    ELSE Head(ts) \o sep \o JoinTexts(Tail(ts), sep)

\* url.Values.Encode: "key=value" for every value, keys sorted, joined by "&"
RECURSIVE EncodeKeys(_, _)
EncodeKeys(m, keys) ==
    IF keys = {} THEN <<>>
    ELSE LET k == MinText(keys)
             pairs == [i \in 1..Len(m[k]) |-> QueryEscape(k) \o <<"=">> \o QueryEscape(m[k][i])]
         IN pairs \o EncodeKeys(m, keys \ {k})

Encode(m) == JoinTexts(EncodeKeys(m, DOMAIN m), <<"&">>)

\* url.Parse fails on a text that starts with a colon (missing protocol scheme)
UrlParseFails(s) == s # <<>> /\ Head(s) = ":"

\* url.Parse: the text before the first "?" and the raw query after it
UrlParse(s) ==
    LET q == Index(s, "?") IN
    IF q = 0 THEN [base |-> s, RawQuery |-> <<>>]
    ELSE [base |-> SubSeq(s, 1, q - 1), RawQuery |-> SubSeq(s, q + 1, Len(s))]

\* u.Query(): the raw query parsed, segments in error left out
UrlQuery(u) == ParseQuery(u.RawQuery).vals

\* the loop of SubmitRequest that adds the params-pane values to the URL's query
RECURSIVE AddParams(_, _, _)
AddParams(originalQuery, q, keys) ==
    IF keys = {} THEN originalQuery
    ELSE LET k == MinText(keys) IN
         AddParams(ValuesAdd(originalQuery, k, JoinTexts(q[k], <<>>)), q, keys \ {k})

\* ------------------------------------------------------------------ names

URL_VIEW == "url"
URL_PARAMS_VIEW == "get"
REQUEST_METHOD_VIEW == "method"
REQUEST_DATA_VIEW == "data"
REQUEST_HEADERS_VIEW == "headers"
SEARCH_VIEW == "search"
RESPONSE_HEADERS_VIEW == "response-headers"
RESPONSE_BODY_VIEW == "response-body"
POPUP_VIEW == "popup_view"
ERROR_VIEW == "error_view"
HISTORY_VIEW == "history"
SAVE_DIALOG_VIEW == "save-dialog"
SAVE_RESULT_VIEW == "save-result"
METHOD_LIST_VIEW == "method-list"
HELP_VIEW == "help"
STATUSLINE_VIEW == "status-line"
SEARCH_PROMPT_VIEW == "prompt"

\* the main panes, in focus order
VIEWS == <<URL_VIEW, URL_PARAMS_VIEW, REQUEST_METHOD_VIEW, REQUEST_DATA_VIEW,
           REQUEST_HEADERS_VIEW, SEARCH_VIEW, RESPONSE_HEADERS_VIEW, RESPONSE_BODY_VIEW>>

\* the views made by CreatePopupView
PopupNames == {HISTORY_VIEW, SAVE_DIALOG_VIEW, SAVE_RESULT_VIEW, METHOD_LIST_VIEW, HELP_VIEW}

\* the five panes a request is built from
RequestPanes == {URL_VIEW, URL_PARAMS_VIEW, REQUEST_METHOD_VIEW, REQUEST_DATA_VIEW,
                 REQUEST_HEADERS_VIEW}

METHODS == <<"GET", "POST", "PUT", "DELETE", "PATCH", "OPTIONS", "TRACE", "CONNECT", "HEAD">>

MIN_WIDTH == 60
MIN_HEIGHT == 20

\* the capacity of the history's first array: make([]*Request, 0, 31)
HistoryCap == 31

\* the terminal sizes of the model: one that fits and one that is too small
Sizes == {<<80, 24>>, <<40, 10>>}

\* ------------------------------------------------------------------ state

VARIABLES
    viewIndex,      \* App.viewIndex
    historyIndex,   \* App.historyIndex
    currentPopup,   \* App.currentPopup, "" when none
    history,        \* App.history: the slice header [arr, len]
    arrays,         \* the arrays a history slice points into, each a sequence of request ids
    requests,       \* the Request records, by id (a *Request)
    views,          \* the names of the views gocui holds
    currentView,    \* the name of gocui's current view
    Cursor,         \* g.Cursor
    size,           \* g.Size()
    rects,          \* the rectangle g.SetView was last given for a view, by name
    buf,            \* the text of the five request panes
    vrh,            \* the response-headers pane: the chunks written to it
    vrb,            \* the response-body pane: the chunks written to it
    vrbTitle,       \* the response-body pane's Title: [text, n], n the number it formats
    search,         \* the text of the search pane
    config,         \* a.config.General: [FormatJSON, ContextSpecificSearch]
    updates,        \* the closures posted with g.Update and not yet run: a bag
    list,           \* the popup: [lines, cy, rect], its inner height, its cursor line and
                    \* the rectangle g.SetView was given for it
    dialog,         \* which save closure the save dialog's Enter is bound to
    workers,        \* the request goroutines in flight: id -> [pc, ...]
    crashed,        \* the process has panicked
    submits,        \* submit commands so far
    sent,           \* the pane texts each request goroutine read, by request id
    clears,         \* clearHistory commands so far
    direct,         \* the views a request goroutine has read or deleted itself
    appended,       \* the requests whose goroutine ran the append of the success path
    failed,         \* the requests whose goroutine met an error
    touched,        \* restore or clearHistory has run
    shrunk,         \* the terminal has been below the minimum size
    caps,           \* how many submit and clearHistory commands the user gives
    ed              \* the editors: the back-tab flags, the cursors of the panes that take
                    \* text, the autocomplete editor's fields and the key events so far

vars == <<viewIndex, historyIndex, currentPopup, history, arrays, requests, views,
          currentView, Cursor, size, rects, buf, vrh, vrb, vrbTitle, search, config, updates, list,
          dialog, workers, crashed, submits, sent, clears, direct, appended, failed, touched,
          shrunk, caps, ed>>

\* the history as the sequence of request ids the slice holds
HistorySeq(h, arrs) == SubSeq(arrs[h.arr], 1, h.len)

\* what the event loop's functions read and write, as one record
World ==
    [viewIndex |-> viewIndex, historyIndex |-> historyIndex, currentPopup |-> currentPopup,
     history |-> history, arrays |-> arrays, requests |-> requests, views |-> views,
     currentView |-> currentView, Cursor |-> Cursor, size |-> size, rects |-> rects,
     buf |-> buf,
     vrh |-> vrh, vrb |-> vrb, vrbTitle |-> vrbTitle, search |-> search, config |-> config,
     updates |-> updates, list |-> list, dialog |-> dialog, crashed |-> crashed, ed |-> ed]

Commit(w) ==
    /\ viewIndex' = w.viewIndex
    /\ historyIndex' = w.historyIndex
    /\ currentPopup' = w.currentPopup
    /\ history' = w.history
    /\ arrays' = w.arrays
    /\ requests' = w.requests
    /\ views' = w.views
    /\ currentView' = w.currentView
    /\ Cursor' = w.Cursor
    /\ size' = w.size
    /\ rects' = w.rects
    /\ buf' = w.buf
    /\ vrh' = w.vrh
    /\ vrb' = w.vrb
    /\ vrbTitle' = w.vrbTitle
    /\ search' = w.search
    /\ config' = w.config
    /\ updates' = w.updates
    /\ list' = w.list
    /\ dialog' = w.dialog
    /\ crashed' = w.crashed
    /\ ed' = w.ed

\* ------------------------------------------------------------------ gocui

\* Go's integer division, which truncates toward zero
GoDiv(a, b) == IF a >= 0 THEN a \div b ELSE -((-a) \div b)

\* getViewValue: the trimmed text of a pane
getViewValue(w, name) == TrimSpace(w.buf[name])

\* the chunk of text a formatted message or rendering is, tagged with its request
Chunk(kind, id) == [kind |-> kind, id |-> id]

\* g.Update(f): f joins the closures the event loop will run
Post(w, u) == [w EXCEPT !.updates = @ (+) SetToBag({u})]

\* ------------------------------------------------------------------ positions

\* position{pct, abs}; pct is held in hundredths.  Of the fractions of
\* VIEW_POSITIONS only 0.3 is not a float32, and for the dimensions of a
\* terminal the float32 product 0.3 * max has the integer part of 3 * max / 10.
position(pct, abs) == [pct |-> pct, abs |-> abs]

\* len("Sending request..")
SendingMsgLen == 17

\* VIEW_POSITIONS: x0, y0, x1, y1 of the views setView places, the popup's as
\* popup(g, "Sending request..") sets them
VIEW_POSITIONS ==
    [name \in {URL_VIEW, URL_PARAMS_VIEW, REQUEST_METHOD_VIEW, REQUEST_DATA_VIEW,
               REQUEST_HEADERS_VIEW, RESPONSE_HEADERS_VIEW, RESPONSE_BODY_VIEW,
               STATUSLINE_VIEW, SEARCH_VIEW, ERROR_VIEW, SEARCH_PROMPT_VIEW, POPUP_VIEW} |->
        CASE name = URL_VIEW ->
                <<position(0, 0), position(0, 0), position(100, -2), position(0, 3)>>
          [] name = URL_PARAMS_VIEW ->
                <<position(0, 0), position(0, 3), position(30, 0), position(25, 0)>>
          [] name = REQUEST_METHOD_VIEW ->
                <<position(0, 0), position(25, 0), position(30, 0), position(25, 2)>>
          [] name = REQUEST_DATA_VIEW ->
                <<position(0, 0), position(25, 2), position(30, 0), position(50, 1)>>
          [] name = REQUEST_HEADERS_VIEW ->
                <<position(0, 0), position(50, 1), position(30, 0), position(100, -3)>>
          [] name = RESPONSE_HEADERS_VIEW ->
                <<position(30, 0), position(0, 3), position(100, -2), position(25, 2)>>
          [] name = RESPONSE_BODY_VIEW ->
                <<position(30, 0), position(25, 2), position(100, -2), position(100, -3)>>
          [] name = STATUSLINE_VIEW ->
                <<position(0, -1), position(100, -4), position(100, 0), position(100, -1)>>
          [] name = SEARCH_VIEW ->
                <<position(0, 7), position(100, -3), position(100, -1), position(100, -1)>>
          [] name = ERROR_VIEW ->
                <<position(0, 0), position(0, 0), position(100, -2), position(100, -2)>>
          [] name = SEARCH_PROMPT_VIEW ->
                <<position(0, -1), position(100, -3), position(0, 8), position(100, -1)>>
          [] name = POPUP_VIEW ->
                <<position(50, -GoDiv(SendingMsgLen, 2) - 1), position(50, -1),
                  position(50, GoDiv(SendingMsgLen, 2) + 1), position(50, 1)>>]

\* a coordinate rounded to the nearest integer
getCoordinateRounds(p, max) == GoDiv(2 * p.pct * max + 100, 200) + p.abs

\* position.getCoordinate: int(p.pct*float32(max)) + p.abs
getCoordinate(p, max) == GoDiv(p.pct * max, 100) + p.abs

\* the rectangle setView(g, viewName) gives g.SetView in a terminal of size sz
SetViewRect(sz, viewName) ==
    LET pos == VIEW_POSITIONS[viewName] IN
    <<getCoordinate(pos[1], sz[1] + 1), getCoordinate(pos[2], sz[2] + 1),
      getCoordinate(pos[3], sz[1] + 1), getCoordinate(pos[4], sz[2] + 1)>>

\* the views the loop of Layout places
LayoutViews == {URL_VIEW, URL_PARAMS_VIEW, REQUEST_METHOD_VIEW, REQUEST_DATA_VIEW,
                REQUEST_HEADERS_VIEW, RESPONSE_HEADERS_VIEW, RESPONSE_BODY_VIEW,
                STATUSLINE_VIEW, SEARCH_PROMPT_VIEW, SEARCH_VIEW}

\* the terminal sizes of the layout: widths and heights on both sides of the
\* minimum, and the dimension 101 that a width or height of 100 gives setView
LayoutSizes == {59, 60, 65, 100} \X {19, 20, 26, 100}

\* terminals a popup is opened on: the smallest, odd ones and a large one
PopupSizes == {60, 61, 200} \X {20, 21, 50}

\* setView(g, viewName) for every view and every terminal of the model, worked
\* out once
Resolved ==
    [sz \in Sizes \cup LayoutSizes \cup PopupSizes |->
        [name \in DOMAIN VIEW_POSITIONS |-> SetViewRect(sz, name)] @@ <<>>] @@ <<>>

\* setView for each view of names: the rectangles rs with those of names anew
Place(rs, sz, names) ==
    [name \in DOMAIN rs \cup names |-> IF name \in names THEN Resolved[sz][name] ELSE rs[name]]

\* ------------------------------------------------------------------ popups and focus

NoList == [lines |-> 0, cy |-> 0, rect |-> <<>>]

\* a closePopup that leaves the cursor and the focus as they are
closePopupKeepsFocus(w, viewname) ==
    IF viewname \in w.views
    THEN [w EXCEPT !.currentPopup = "",
                   !.views = @ \ {viewname},
                   !.list = [lines |-> 0, cy |-> 0, rect |-> <<>>],
                   !.dialog = IF viewname = SAVE_DIALOG_VIEW THEN "" ELSE @]
    ELSE w

\* closePopup: the view goes, and with it its cursor; the Enter binding of a
\* save dialog stays but cannot run until OpenSaveDialog binds Enter anew
closePopup(w, viewname) ==
    IF viewname \in w.views
    THEN [w EXCEPT !.currentPopup = "",
                   !.views = @ \ {viewname},
                   !.list = NoList,
                   !.dialog = IF viewname = SAVE_DIALOG_VIEW THEN "" ELSE @,
                   !.currentView = VIEWS[(w.viewIndex % Len(VIEWS)) + 1],
                   !.Cursor = TRUE]
    ELSE w

\* the rectangle of a CreatePopupView that takes the width and height as asked
PopupRectUnclamped(maxX, maxY, width, height) ==
    [x0 |-> GoDiv(maxX, 2) - GoDiv(width, 2) - 1,
     y0 |-> GoDiv(maxY, 2) - GoDiv(height, 2) - 1,
     x1 |-> GoDiv(maxX, 2) + GoDiv(width, 2),
     y1 |-> GoDiv(maxY, 2) + GoDiv(height, 2) + 1]

\* the rectangle CreatePopupView asks g.SetView for
PopupRect(maxX, maxY, width, height) ==
    LET h == IF height > maxY - 4 THEN maxY - 4 ELSE height
        wd == IF width > maxX - 4 THEN maxX - 4 ELSE width
    IN [x0 |-> GoDiv(maxX, 2) - GoDiv(wd, 2) - 1,
        y0 |-> GoDiv(maxY, 2) - GoDiv(h, 2) - 1,
        x1 |-> GoDiv(maxX, 2) + GoDiv(wd, 2),
        y1 |-> GoDiv(maxY, 2) + GoDiv(h, 2) + 1]

\* g.SetView refuses a rectangle with no width or no height
SetViewFails(r) == r.x0 >= r.x1 \/ r.y0 >= r.y1

\* a CreatePopupView that does not close the popup that is open
CreatePopupViewStacks(w, name, width, height) ==
    LET w1 == [w EXCEPT !.Cursor = FALSE]
        r == PopupRect(w.size[1], w.size[2], width, height)
    IN IF SetViewFails(r)
       THEN [w |-> w1, err |-> TRUE]
       ELSE [w |-> [w1 EXCEPT !.views = @ \cup {name},
                              !.currentPopup = name,
                              !.list = [lines |-> r.y1 - r.y0 - 1, cy |-> 0, rect |-> r]],
             err |-> FALSE]

\* CreatePopupView: [w, err], the world afterwards and whether it returned an error
CreatePopupView(w, name, width, height) ==
    LET w1 == [closePopup(w, w.currentPopup) EXCEPT !.Cursor = FALSE]
        r == PopupRect(w.size[1], w.size[2], width, height)
    IN IF SetViewFails(r)
       THEN [w |-> w1, err |-> TRUE]
       ELSE [w |-> [w1 EXCEPT !.views = @ \cup {name},
                              !.currentPopup = name,
                              !.list = [lines |-> r.y1 - r.y0 - 1, cy |-> 0, rect |-> r]],
             err |-> FALSE]

\* a handler that returns an error ends g.MainLoop, and main panics
Quit(w) == [w EXCEPT !.crashed = TRUE]

\* a setView that leaves the popup open
setViewKeepsPopup(w) == [w EXCEPT !.currentView = VIEWS[w.viewIndex + 1]]

\* App.setView
setView(w) ==
    [closePopup(w, w.currentPopup) EXCEPT !.currentView = VIEWS[w.viewIndex + 1]]

NextView(w) == setView([w EXCEPT !.viewIndex = (w.viewIndex + 1) % Len(VIEWS)])

PrevView(w) == setView([w EXCEPT !.viewIndex = (w.viewIndex - 1 + Len(VIEWS)) % Len(VIEWS)])

\* setViewByName for the name of a main pane (the key table names no other)
setViewByName(w, name) ==
    setView([w EXCEPT !.viewIndex = Index(VIEWS, name) - 1])

\* v.SetCursor(x, y) on the list popup: refused when y is not a line of the view
SetCursorY(w, y) ==
    IF y < 0 \/ y >= w.list.lines THEN w ELSE [w EXCEPT !.list.cy = y]

\* a layout pass that removes the error pane and leaves the focus where it is
LayoutKeepsFocus(w) ==
    IF w.size[1] < MIN_WIDTH \/ w.size[2] < MIN_HEIGHT
    THEN IF ERROR_VIEW \in w.views
         THEN [w EXCEPT !.rects = Place(@, w.size, {ERROR_VIEW})]
         ELSE [w EXCEPT !.views = @ \cup {ERROR_VIEW}, !.Cursor = FALSE,
                        !.rects = Place(@, w.size, {ERROR_VIEW})]
    ELSE [w EXCEPT !.views = @ \ {ERROR_VIEW}, !.Cursor = TRUE,
                   !.rects = Place(@, w.size, LayoutViews)]

\* App.Layout, which gocui runs after every event
Layout(w) ==
    IF w.size[1] < MIN_WIDTH \/ w.size[2] < MIN_HEIGHT
    THEN IF ERROR_VIEW \in w.views
         THEN [w EXCEPT !.rects = Place(@, w.size, {ERROR_VIEW})]
         ELSE [w EXCEPT !.views = @ \cup {ERROR_VIEW}, !.Cursor = FALSE,
                        !.rects = Place(@, w.size, {ERROR_VIEW})]
    ELSE LET w1 == IF ERROR_VIEW \in w.views
                   THEN setView([w EXCEPT !.views = @ \ {ERROR_VIEW}, !.Cursor = TRUE])
                   ELSE w
         IN [w1 EXCEPT !.rects = Place(@, w.size, LayoutViews)]

\* popup(g, msg): the "Sending request.." view, made when it does not exist
popup(w) == [w EXCEPT !.views = @ \cup {POPUP_VIEW}, !.rects = Place(@, w.size, {POPUP_VIEW})]

\* App.PrintBody: it only posts the closure that prints
PrintBody(w) == Post(w, [kind |-> "PrintBody", id |-> 0, text |-> <<>>])

ToggleHistory(w) ==
    IF w.currentPopup = HISTORY_VIEW
    THEN closePopup(w, HISTORY_VIEW)
    ELSE LET c == CreatePopupView(w, HISTORY_VIEW, 100, w.history.len) IN
         IF c.err THEN Quit(c.w)
         ELSE IF w.history.len = 0 THEN c.w
         ELSE SetCursorY([c.w EXCEPT !.currentView = HISTORY_VIEW], w.historyIndex)

ToggleMethodList(w) ==
    IF w.currentPopup = METHOD_LIST_VIEW
    THEN closePopup(w, METHOD_LIST_VIEW)
    ELSE LET c == CreatePopupView(w, METHOD_LIST_VIEW, 50, Len(METHODS))
             cur == getViewValue(w, REQUEST_METHOD_VIEW)
             at == IF Len(cur) = 1 THEN Index(METHODS, cur[1]) ELSE 0
         IN IF c.err THEN Quit(c.w)
            ELSE LET w1 == IF at = 0 THEN c.w ELSE SetCursorY(c.w, at - 1)
                 IN [w1 EXCEPT !.currentView = METHOD_LIST_VIEW]

\* the F1 binding of SetKeys
ToggleHelp(w) ==
    IF w.currentPopup = HELP_VIEW
    THEN closePopup(w, HELP_VIEW)
    ELSE LET c == CreatePopupView(w, HELP_VIEW, 60, 40) IN
         IF c.err THEN Quit(c.w) ELSE [c.w EXCEPT !.currentView = HELP_VIEW]

\* OpenSaveDialog, which binds the dialog's Enter to the closure named kind
OpenSaveDialog(w, kind) ==
    LET c == CreatePopupView(w, SAVE_DIALOG_VIEW, 60, 1) IN
    IF c.err THEN Quit(c.w)
    ELSE [c.w EXCEPT !.Cursor = TRUE, !.currentView = SAVE_DIALOG_VIEW, !.dialog = kind]

\* len("Save Result (press enter to close)")
SaveResultTitleLen == 34

\* OpenSaveResultView for a message of msgLen characters
OpenSaveResultView(w, msgLen) ==
    LET w0 == IF msgLen + 1 < SaveResultTitleLen + 2 THEN SaveResultTitleLen + 2 ELSE msgLen + 1
        height == IF w0 > w.size[1] THEN GoDiv(w0, w.size[1]) + 1 ELSE 1
        width == IF w0 > w.size[1] THEN w.size[1] ELSE w0
        c == CreatePopupView(w, SAVE_RESULT_VIEW, width, height)
    IN IF c.err THEN Quit(c.w) ELSE [c.w EXCEPT !.currentView = SAVE_RESULT_VIEW]

\* ------------------------------------------------------------------ formatter

\* A content type is a sequence of tokens: words ("application", "json",
\* "utf-8", ...) and the separators "/", ";", "=", "+" and SP.  No word of the
\* model contains "text", "application", "html" or "json" inside a longer word,
\* so a substring test of the code is a test on whole tokens.

\* config.ContentTypes["json"]
ContentTypesJson == <<"application", "/", "json">>

\* the Content-Type header values a response carries, <<>> for no header
MediaTypes ==
    {<<>>,
     ContentTypesJson,
     ContentTypesJson \o <<";", SP, "charset", "=", "utf-8">>,
     ContentTypesJson \o <<";", SP, "charset">>,
     <<"Application", "/", "JSON">>,
     <<"application", "/", "vnd.api", "+", "json">>,
     <<"text", "/", "html">>,
     <<"text", "/", "html", ";", SP, "charset", "=", "utf-8">>,
     <<"TEXT", "/", "HTML">>,
     <<"octet-stream">>,
     <<"image", "/", "png">>,
     <<"image", "/", "png", ";", SP, "note", "=", "text">>,
     <<"text", "/", "plain">>,
     <<"text", "/", "plain", ";", SP, "charset", "=", "utf-8">>,
     <<"application", "/", "xml">>}

\* strings.Contains(s, sub)
Contains(s, sub) == \E i \in 0..(Len(s) - Len(sub)) : SubSeq(s, i + 1, i + Len(sub)) = sub

\* mime.ParseMediaType(v): the media type before the first ";", trimmed and in
\* lower case, and whether the type or one of the parameters is malformed
ParseMediaType(v) ==
    LET semi == Index(v, ";")
        base == TrimSpace(IF semi = 0 THEN v ELSE SubSeq(v, 1, semi - 1))
        params == IF semi = 0 THEN <<>> ELSE Split(SubSeq(v, semi + 1, Len(v)), ";")
        lower(c) == CASE c = "TEXT" -> "text"
                      [] c = "HTML" -> "html"
                      [] c = "Application" -> "application"
                      [] c = "JSON" -> "json"
                      [] OTHER -> c
        isToken(t) == t # <<>> /\ \A i \in 1..Len(t) : t[i] \notin {SP, NL, "/", ";", "="}
        halves == Split(base, "/")
        typeOk == Len(halves) \in {1, 2} /\ \A k \in 1..Len(halves) : isToken(halves[k])
        paramOk(p) == Len(p) = 3 /\ isToken(<<p[1]>>) /\ p[2] = "=" /\ isToken(<<p[3]>>)
        paramsOk == \A k \in 1..Len(params) :
                        \/ paramOk(TrimSpace(params[k]))
                        \/ k = Len(params) /\ TrimSpace(params[k]) = <<>>
    IN [mediatype |-> [i \in 1..Len(base) |-> lower(base[i])],
        err |-> ~(typeOk /\ paramsOk)]

\* a dispatch without the binary formatter
NewWithoutBinary(appConfig, contentType) ==
    IF Contains(contentType, <<"text", "/", "html">>) THEN "htmlFormatter"
    ELSE IF appConfig.FormatJSON /\ Contains(contentType, <<"json">>) THEN "jsonFormatter"
    ELSE "TextFormatter"

\* formatter.New: the formatter of a content type, named by its Go type
New(appConfig, contentType) ==
    LET parsed == ParseMediaType(contentType)
        ctype == parsed.mediatype
    IN IF /\ ~parsed.err
          /\ appConfig.FormatJSON
          /\ \/ ctype = ContentTypesJson
             \/ Len(ctype) >= 2 /\ SubSeq(ctype, Len(ctype) - 1, Len(ctype)) = <<"+", "json">>
       THEN "jsonFormatter"
       ELSE IF Contains(contentType, <<"text", "/", "html">>) THEN "htmlFormatter"
       ELSE IF ~Contains(contentType, <<"text">>) /\ ~Contains(contentType, <<"application">>)
       THEN "binaryFormatter"
       ELSE "TextFormatter"

\* var DEFAULT_FORMATTER = &formatter.TextFormatter{}
DEFAULT_FORMATTER == "TextFormatter"

\* ResponseFormatter.Title
Title(f) ==
    CASE f = "jsonFormatter" -> "[json]"
      [] f = "htmlFormatter" -> "[html]"
      [] f = "binaryFormatter" -> "[binary]"
      [] f = "TextFormatter" -> "[text]"

\* a formatter every type of which can be searched
SearchableAlways(f) == TRUE

\* ResponseFormatter.Searchable: binaryFormatter's own method, TextFormatter's for
\* the others, which embed it
Searchable(f) == f # "binaryFormatter"

\* the JSON documents of the model: {"a":{"b":1}}, its member {"b":1}, and {"n":null}
DocB == [Type |-> "JSON", members |-> <<[key |-> <<"b">>, val |-> [Type |-> "Number", text |-> <<"1">>]]>>]
DocAB == [Type |-> "JSON", members |-> <<[key |-> <<"a">>, val |-> DocB]>>]
DocN == [Type |-> "JSON", members |-> <<[key |-> <<"n">>,
                                         val |-> [Type |-> "Null", text |-> <<"n", "u", "l", "l">>]]>>]
Docs == {DocAB, DocB, DocN}

\* the bytes of a document, Result.Raw
RECURSIVE Raw(_)
Raw(t) ==
    LET RECURSIVE RawMembers(_)
        RawMembers(ms) ==
            IF ms = <<>> THEN <<>>
            ELSE <<"\"">> \o ms[1].key \o <<"\"", ":">> \o Raw(ms[1].val)
                 \o (IF Len(ms) = 1 THEN <<>> ELSE <<",">> \o RawMembers(Tail(ms)))
    IN IF t.Type = "JSON" THEN <<"{">> \o RawMembers(t.members) \o <<"}">> ELSE t.text

\* gjson.ParseBytes(body): the document the bytes are, the zero Result for bytes
\* that start no JSON value
ParseBytes(body) ==
    IF \E t \in Docs : Raw(t) = body
    THEN CHOOSE t \in Docs : Raw(t) = body
    ELSE [Type |-> "Null", text |-> <<>>]

\* Result.Get(path) for a path of keys joined by "."
RECURSIVE Get(_, _)
Get(t, keys) ==
    IF keys = <<>> THEN t
    ELSE IF t.Type # "JSON" \/ \A i \in 1..Len(t.members) : t.members[i].key # keys[1]
    THEN [Type |-> "Null", text |-> <<>>]
    ELSE LET i == CHOOSE i \in 1..Len(t.members) :
                      /\ t.members[i].key = keys[1]
                      /\ \A j \in 1..(i - 1) : t.members[j].key # keys[1]
         IN Get(t.members[i].val, Tail(keys))

\* jsoncolor's Format: the indented and coloured text of a JSON document, an
\* error for bytes that are no JSON document
jsoncolorFormat(data) ==
    IF \E t \in Docs : Raw(t) = data
    THEN [err |-> "", out |-> <<"indented">> \o data]
    ELSE [err |-> "invalid json", out |-> <<>>]

\* ResponseFormatter.Format on the body of request id: the chunks written, or
\* the error
Format(f, id, data) ==
    CASE f = "jsonFormatter" ->
            IF jsoncolorFormat(data).err = ""
            THEN [err |-> "", out |-> <<Chunk("body indented", id)>>]
            ELSE [err |-> "json formatter error", out |-> <<>>]
      [] f = "htmlFormatter" -> [err |-> "", out |-> <<Chunk("body coloured", id)>>]
      [] f = "binaryFormatter" -> [err |-> "", out |-> <<Chunk("body hex dump", id)>>]
      [] f = "TextFormatter" -> [err |-> "", out |-> <<Chunk("body", id)>>]

\* the limit TextFormatter.Search gives FindAll
MaxMatches == 1000

\* regexp.Compile refuses the pattern.  The patterns of the model are made of
\* literals, "." and parentheses that are never closed.
CompileFails(q) == \E i \in 1..Len(q) : q[i] = "(" /\ \A j \in (i + 1)..Len(q) : q[j] # ")"

\* Regexp.FindAll(body, n) from position i: the leftmost matches that do not
\* overlap, at most n of them, and the position the scan goes on from (0 when
\* the body holds no further match).  The first half of the n matches is found,
\* then the second half from where the first ended.
RECURSIVE FindAll(_, _, _, _)
FindAll(q, body, i, n) ==
    LET last == Len(body) - Len(q) + 1
        MatchAt(p) == \A k \in 1..Len(q) :
                          q[k] = body[p + k - 1] \/ (q[k] = "." /\ body[p + k - 1] # NL)
        first == IF i > last THEN 0
                 ELSE IF MatchAt(i) THEN i
                 ELSE IF \A p \in i..last : ~MatchAt(p) THEN 0
                 ELSE CHOOSE p \in i..last : MatchAt(p) /\ \A r \in i..(p - 1) : ~MatchAt(r)
        half == FindAll(q, body, i, n \div 2)
        rest == FindAll(q, body, half.next, n - n \div 2)
    IN IF n = 0 THEN [matches |-> <<>>, next |-> i]
       ELSE IF n = 1
       THEN IF first = 0 THEN [matches |-> <<>>, next |-> 0]
            ELSE [matches |-> <<SubSeq(body, first, first + Len(q) - 1)>>,
                  next |-> first + (IF q = <<>> THEN 1 ELSE Len(q))]
       ELSE IF half.next = 0 THEN half
       ELSE [matches |-> half.matches \o rest.matches, next |-> rest.next]

\* a text search that goes on to the end of the body
SearchUncapped(f, q, body) ==
    [err |-> "", results |-> FindAll(q, body, 1, Len(body) + 1).matches]

\* a search that turns every error into no result
SearchNoError(f, q, body) ==
    [err |-> "", results |-> IF f = "binaryFormatter" \/ CompileFails(q) THEN <<>>
                             ELSE FindAll(q, body, 1, MaxMatches).matches]

\* ResponseFormatter.Search: the results, or the error
Search(f, q, body) ==
    LET found == Get(ParseBytes(body), Split(q, "."))
        doc == IF q = <<>> THEN body ELSE Raw(found)
    IN CASE f = "binaryFormatter" ->
              [err |-> "Cannot perform search on binary content type", results |-> <<>>]
         [] f = "jsonFormatter" ->
              IF q # <<>> /\ found.Type = "Null"
              THEN [err |-> "Invalid gjson query or no results found", results |-> <<>>]
              ELSE IF q # <<>> /\ found.Type # "JSON"
              THEN [err |-> "", results |-> <<found.text>>]
              ELSE IF jsoncolorFormat(doc).err # ""
              THEN [err |-> "Invalid results", results |-> <<>>]
              ELSE [err |-> "", results |-> <<jsoncolorFormat(doc).out>>]
         [] OTHER ->
              IF CompileFails(q)
              THEN [err |-> "error parsing regexp", results |-> <<>>]
              ELSE [err |-> "", results |-> FindAll(q, body, 1, MaxMatches).matches]

\* ------------------------------------------------------------------ history

\* a nil RawResponseBody, and the body of the responses whose content is of no
\* interest; a body is the sequence of its characters
NilBody == <<"nil">>
Bytes == <<"o", "k">>

\* &Request{}
NewRequest == [Url |-> <<>>, Method |-> <<>>, GetParams |-> <<>>, Data |-> <<>>,
               Headers |-> <<>>, ResponseHeaders |-> <<>>, RawResponseBody |-> NilBody,
               ContentType |-> <<>>, Formatter |-> ""]

\* a.history[i], i counted from 0: the id of the request
HistoryAt(w, i) == w.arrays[w.history.arr][i + 1]

\* setViewTextAndCursor on a request pane
SetPane(w, name, text) == [w EXCEPT !.buf[name] = text]

\* restoreRequest past its range check: the index, the five panes, the response
\* headers, and the closure that prints the body
restoreEntry(w, idx) ==
    LET w1 == [closePopup(w, HISTORY_VIEW) EXCEPT !.historyIndex = idx]
        r == w.requests[HistoryAt(w, idx)]
        w2 == [w1 EXCEPT !.buf = [name \in DOMAIN w.buf |->
                             CASE name = URL_VIEW -> r.Url
                               [] name = REQUEST_METHOD_VIEW -> r.Method
                               [] name = URL_PARAMS_VIEW -> r.GetParams
                               [] name = REQUEST_DATA_VIEW -> r.Data
                               [] name = REQUEST_HEADERS_VIEW -> r.Headers
                               [] OTHER -> w.buf[name]],
                         !.vrh = r.ResponseHeaders]
    IN PrintBody(w2)

\* a restore that closes the history popup before it looks at the index
restoreRequestClosesFirst(w, idx) ==
    IF idx < 0 \/ idx >= w.history.len
    THEN closePopup(w, HISTORY_VIEW)
    ELSE restoreEntry(w, idx)

restoreRequest(w, idx) ==
    IF idx < 0 \/ idx >= w.history.len THEN w ELSE restoreEntry(w, idx)

\* an Enter binding that drops the entries after the one it restores
HistoryEnterKeyDrops(w) ==
    IF w.history.len <= w.list.cy
    THEN w
    ELSE restoreRequest([w EXCEPT !.history.len = w.list.cy + 1], w.list.cy)

\* the Enter binding of the history popup, the cursor on line cy
HistoryEnterKey(w) ==
    IF w.history.len <= w.list.cy THEN w ELSE restoreRequest(w, w.list.cy)

\* the clearHistory command: a new array, the index back to 0, and a layout pass
clearHistory(w) ==
    Layout([w EXCEPT !.arrays = Append(@, <<>>),
                     !.history = [arr |-> Len(w.arrays) + 1, len |-> 0],
                     !.historyIndex = 0])

\* ------------------------------------------------------------------ files

\* a request file as saveRequest writes it, with a text for each of the five panes
FullFile ==
    [err |-> "",
     map |-> (URL_VIEW :> <<"http://h">>) @@ (REQUEST_METHOD_VIEW :> <<"POST">>)
             @@ (URL_PARAMS_VIEW :> <<"b", "=", "2">>) @@ (REQUEST_DATA_VIEW :> <<"f", "=", "1">>)
             @@ (REQUEST_HEADERS_VIEW :> <<"X-K", ":", SP, "v">>)]

\* what ioutil.ReadFile and json.Unmarshal give LoadRequest: an error, or the
\* texts the file holds for the panes: for all five, or for the method pane alone
LoadFiles ==
    {[err |-> "io", map |-> <<>>], [err |-> "json", map |-> <<>>],
     FullFile,
     [err |-> "", map |-> (REQUEST_METHOD_VIEW :> <<"POST">>)]}

\* a load that sets each of the five panes, to the empty text when the file
\* holds none for it
LoadRequestBlanks(w, file) ==
    IF file.err = "io"
    THEN Post(w, [kind |-> "clearAndPrint", id |-> 0, text |-> <<Chunk("File reading error", 0)>>])
    ELSE IF file.err = "json"
    THEN Post(w, [kind |-> "clearAndPrint", id |-> 0, text |-> <<Chunk("JSON decoding error", 0)>>])
    ELSE [w EXCEPT !.buf = [name \in DOMAIN w.buf |->
                              IF name \in DOMAIN file.map THEN file.map[name] ELSE <<>>]]

LoadRequest(w, file) ==
    IF file.err = "io"
    THEN Post(w, [kind |-> "clearAndPrint", id |-> 0, text |-> <<Chunk("File reading error", 0)>>])
    ELSE IF file.err = "json"
    THEN Post(w, [kind |-> "clearAndPrint", id |-> 0, text |-> <<Chunk("JSON decoding error", 0)>>])
    ELSE [w EXCEPT !.buf = [name \in DOMAIN w.buf |->
                              IF name \in DOMAIN file.map THEN file.map[name] ELSE w.buf[name]]]

\* the Enter closure of the load-request dialog
LoadRequestEnter(w, file) == closePopup(LoadRequest(w, file), SAVE_DIALOG_VIEW)

\* the Enter closure of the save-response dialog; writeOk is ioutil.WriteFile's outcome
SaveResponseEnter(w, writeOk, msgLen) ==
    IF w.history.len = 0 THEN w
    ELSE IF w.historyIndex >= w.history.len THEN Quit(w)
    ELSE IF w.requests[HistoryAt(w, w.historyIndex)].RawResponseBody = NilBody THEN w
    ELSE OpenSaveResultView(w, msgLen)

\* the Enter closure of the save-request dialog: on a failed write it reads
\* err.Error() of the nil error json.Marshal returned, and panics
SaveRequestEnter(w, writeOk, msgLen) ==
    IF ~writeOk THEN Quit(w)
    ELSE closePopup(OpenSaveResultView(w, msgLen), SAVE_DIALOG_VIEW)

\* the lengths of the messages a save result shows
MsgLens == {28, 60}

\* ------------------------------------------------------------------ the request goroutine

\* http.Header.Get after the Set calls of SubmitRequest: the value of the last
\* "Name: Value" line with that name, <<>> when there is none
RECURSIVE HeaderGet(_, _)
HeaderGet(lines, name) ==
    IF lines = <<>> THEN <<>>
    ELSE LET parts == SplitHeader(lines[Len(lines)]) IN
         IF Len(parts) = 2 /\ parts[1] = name THEN parts[2]
         ELSE HeaderGet(SubSeq(lines, 1, Len(lines) - 1), name)

\* a line of the headers text the loop of SubmitRequest rejects
BadHeaderLine(line) == line # <<>> /\ Len(SplitHeader(line)) # 2

HeadersBad(text) == \E i \in 1..Len(Split(text, NL)) : BadHeaderLine(Split(text, NL)[i])

\* the methods that carry a body
BodyMethods == {<<"POST">>, <<"PUT">>, <<"PATCH">>}

\* http.NewRequest refuses a method that is not a token
NewRequestFails(method) == \E i \in 1..Len(method) : method[i] \in {SP, NL, ":", "=", "?", "@", ";"}

\* a value of the multipart data that names a file
NamesFile(vals) == \E k \in DOMAIN vals : \E i \in 1..Len(vals[k]) :
                       vals[k][i] # <<>> /\ vals[k][i][1] = "@"

\* what the network gives CLIENT.Do, gzip.NewReader and ioutil.ReadAll
DoOutcomes == {"doErr", "gzipErr", "readErr", "ok"}

\* a response of plain text
PlainResponse == [ContentType |-> <<"text", "/", "plain">>, Body |-> Bytes]

ErrUpdate(msg, id) == [kind |-> "print", id |-> id, text |-> <<Chunk(msg, id)>>]

\* a goroutine that posts the message and goes on to the network call
WorkerFailsGoesOn(id, msg) ==
    /\ workers' = [workers EXCEPT ![id].pc = "do"]
    /\ failed' = failed \cup {id}
    /\ updates' = IF msg = "" THEN updates ELSE updates (+) SetToBag({ErrUpdate(msg, id)})

\* the goroutine stops with an error: it posts the message (none when msg is "")
\* and only its deferred DeleteView is left
WorkerFails(id, msg) ==
    /\ workers' = [workers EXCEPT ![id].pc = "done"]
    /\ failed' = failed \cup {id}
    /\ updates' = IF msg = "" THEN updates ELSE updates (+) SetToBag({ErrUpdate(msg, id)})

\* the query sent: the URL's own query with the params-pane values added
MergedQuery(urlText, q) == Encode(AddParams(UrlQuery(UrlParse(urlText)), q, DOMAIN q))

\* SubmitRequest from "parse url" to "create request", on the pane texts b:
\* the fields of r it has set when it stops, whether it stopped on an error, and
\* the message it then posts ("" for none).  openOk is the outcome of os.Open.
BuildRequest(b, openOk) ==
    LET Url == TrimSpace(b[URL_VIEW])
        q == ParseQuery(Replace(TrimSpace(b[URL_PARAMS_VIEW]), NL, "&"))
        Method == TrimSpace(b[REQUEST_METHOD_VIEW])
        Headers == TrimSpace(b[REQUEST_HEADERS_VIEW])
        ctype == HeaderGet(Split(Headers, NL), <<"Content-Type">>)
        postData == ParseQuery(Replace(TrimSpace(b[REQUEST_DATA_VIEW]), NL, "&"))
        r1 == [NewRequest EXCEPT !.Url = Url]
        r2 == [r1 EXCEPT !.GetParams = MergedQuery(Url, q.vals), !.Method = Method]
        r3 == [r2 EXCEPT !.Headers = Headers]
        Stop(r, msg, reads) == [r |-> r, err |-> TRUE, msg |-> msg, reads |-> reads]
    IN IF UrlParseFails(Url) THEN Stop(r1, "URL parse error", {URL_VIEW})
       ELSE IF q.err THEN Stop(r1, "Invalid GET parameters", {URL_VIEW, URL_PARAMS_VIEW})
       ELSE IF HeadersBad(Headers)
       THEN Stop(r3, "Invalid header", RequestPanes \ {REQUEST_DATA_VIEW})
       ELSE IF Method \notin BodyMethods
       THEN [r |-> r3, err |-> FALSE, msg |-> "", reads |-> RequestPanes \ {REQUEST_DATA_VIEW}]
       ELSE IF ctype = <<"multipart/form-data">> /\ postData.err
       THEN Stop(r3, "", RequestPanes)
       ELSE IF ctype = <<"multipart/form-data">> /\ NamesFile(postData.vals) /\ ~openOk
       THEN Stop(r3, "Error", RequestPanes)
       ELSE [r |-> r3, err |-> FALSE, msg |-> "", reads |-> RequestPanes]

\* the goroutine reads the panes with getViewValue and builds the request
\* the pane texts the command line seeds (App.ParseArgs)
DefaultSeed ==
    [name \in RequestPanes |->
        CASE name = URL_VIEW -> <<"http://h", "?", "a", "=", "1">>
          [] name = REQUEST_METHOD_VIEW -> <<"GET">>
          [] OTHER -> <<>>]

Seeds ==
    {DefaultSeed,
     [DefaultSeed EXCEPT ![URL_VIEW] = <<":">>],
     [DefaultSeed EXCEPT ![URL_PARAMS_VIEW] = <<"b", "=", "2", NL, "a", ";">>],
     [DefaultSeed EXCEPT ![REQUEST_HEADERS_VIEW] = <<"X-K">>],
     [DefaultSeed EXCEPT ![URL_VIEW] = <<"http://h">>,
                         ![URL_PARAMS_VIEW] = <<"b", "=", "2">>,
                         ![REQUEST_METHOD_VIEW] = <<"POST">>,
                         ![REQUEST_DATA_VIEW] = <<"f", "=", "1">>,
                         ![REQUEST_HEADERS_VIEW] = <<"X-K", ":", SP, "v">>],
     [DefaultSeed EXCEPT ![REQUEST_METHOD_VIEW] = <<"POST">>,
                         ![REQUEST_DATA_VIEW] = <<"f", "=", "@", "a">>,
                         ![REQUEST_HEADERS_VIEW] = <<"Content-Type", ":", SP,
                                                     "multipart/form-data">>]}

\* a POST of multipart/form-data with the text data in the data pane
MultipartSeed(data) ==
    [DefaultSeed EXCEPT ![REQUEST_METHOD_VIEW] = <<"POST">>,
                        ![REQUEST_DATA_VIEW] = data,
                        ![REQUEST_HEADERS_VIEW] = <<"Content-Type", ":", SP, "multipart/form-data">>]

\* the pane texts of the submissions: a GET, and multipart forms with a field,
\* with a file, and with a data text url.ParseQuery refuses
SubmitSeeds ==
    {DefaultSeed,
     MultipartSeed(<<"f", "=", "1">>),
     MultipartSeed(<<"f", "=", "@", "a">>),
     MultipartSeed(<<"f", "=", "1", NL, "a", ";">>)}

\* BuildRequest on the pane texts the sessions start from, computed once
BuiltSeeds ==
    [b \in Seeds \cup SubmitSeeds |-> [openOk \in BOOLEAN |-> BuildRequest(b, openOk)] @@ <<>>]
    @@ <<>>

Built(b, openOk) ==
    IF b \in DOMAIN BuiltSeeds THEN BuiltSeeds[b][openOk] ELSE BuildRequest(b, openOk)

WorkerBuild(id, openOk) ==
    /\ ~crashed
    /\ id \in DOMAIN workers /\ workers[id].pc = "build"
    /\ LET b == Built(buf, openOk) IN
       /\ requests' = [requests EXCEPT ![id] = b.r]
       /\ direct' = direct \cup b.reads
       /\ sent' = sent @@ (id :> buf)
       /\ IF b.err
          THEN WorkerFails(id, b.msg)
          ELSE /\ workers' = [workers EXCEPT ![id].pc = "do"]
               /\ UNCHANGED <<failed, updates>>
    /\ UNCHANGED <<ed, viewIndex, historyIndex, currentPopup, history, arrays, views, currentView,
                   Cursor, size, rects, buf, vrh, vrb, vrbTitle, search, config,
                   list, dialog, crashed, caps, shrunk, submits,
                   clears, appended, touched>>

\* http.NewRequest, CLIENT.Do, the gzip reader and ioutil.ReadAll; then the
\* goroutine reads a.history for its append
WorkerDo(id, outcome, response) ==
    /\ ~crashed
    /\ id \in DOMAIN workers /\ workers[id].pc = "do"
    /\ IF NewRequestFails(requests[id].Method)
       THEN WorkerFails(id, "Request error") /\ UNCHANGED requests
       ELSE IF outcome = "doErr"
       THEN WorkerFails(id, "Response error") /\ UNCHANGED requests
       ELSE IF outcome = "gzipErr"
       THEN /\ WorkerFails(id, "Cannot uncompress response")
            /\ requests' = [requests EXCEPT ![id].ContentType = response.ContentType]
       ELSE /\ requests' = [requests EXCEPT
                              ![id].ContentType = response.ContentType,
                              ![id].RawResponseBody = IF outcome = "ok" THEN response.Body
                                                                        ELSE NilBody,
                              ![id].Formatter = New(config, response.ContentType)]
            /\ workers' = [workers EXCEPT ![id].pc = "store", ![id].h = history]
            /\ failed' = IF outcome = "ok" THEN failed ELSE failed \cup {id}
            /\ UNCHANGED updates
    /\ UNCHANGED <<ed, viewIndex, historyIndex, currentPopup, history, arrays, views, currentView,
                   Cursor, size, rects, buf, vrh, vrb, vrbTitle, search, config,
                   list, dialog, crashed, caps, shrunk, submits, sent,
                   clears, direct, appended, touched>>

\* the slice header a goroutine holds before it has read a.history
NoHeader == [arr |-> 0, len |-> 0]

\* append(h, r) for the slice header h the goroutine read: within the capacity
\* it writes the next slot of h's array, else it copies into a new array
GoAppend(arrs, h, id) ==
    IF h.len < HistoryCap
    THEN [arrays |-> [arrs EXCEPT ![h.arr] = SubSeq(@, 1, h.len) \o <<id>>
                                              \o SubSeq(@, h.len + 2, Len(@))],
          header |-> [arr |-> h.arr, len |-> h.len + 1]]
    ELSE [arrays |-> Append(arrs, SubSeq(arrs[h.arr], 1, h.len) \o <<id>>),
          header |-> [arr |-> Len(arrs) + 1, len |-> h.len + 1]]

\* a.history = append(a.history, r), the write
WorkerStore(id) ==
    /\ ~crashed
    /\ id \in DOMAIN workers /\ workers[id].pc = "store"
    /\ LET a == GoAppend(arrays, workers[id].h, id) IN
       /\ arrays' = a.arrays
       /\ history' = a.header
    /\ workers' = [workers EXCEPT ![id].pc = "index", ![id].h = NoHeader]
    /\ appended' = appended \cup {id}
    /\ UNCHANGED <<ed, viewIndex, historyIndex, currentPopup, requests, views, currentView,
                   Cursor, size, rects, buf, vrh, vrb, vrbTitle, search, config,
                   updates, list, dialog, crashed, caps, shrunk, submits,
                   sent, clears, direct, failed, touched>>

\* a.historyIndex = len(a.history) - 1, then g.Update with the closure that renders
WorkerIndex(id) ==
    /\ ~crashed
    /\ id \in DOMAIN workers /\ workers[id].pc = "index"
    /\ historyIndex' = history.len - 1
    /\ updates' = updates (+) SetToBag({[kind |-> "render", id |-> id,
                                         text |-> <<Chunk("headers", id)>>]})
    /\ workers' = [workers EXCEPT ![id].pc = "done"]
    /\ UNCHANGED <<ed, viewIndex, currentPopup, history, arrays, requests, views, currentView,
                   Cursor, size, rects, buf, vrh, vrb, vrbTitle, search, config,
                   list, dialog, crashed, caps, shrunk, submits, sent,
                   clears, direct, appended, failed, touched>>

\* defer g.DeleteView(POPUP_VIEW): the goroutine ends
WorkerDone(id) ==
    /\ ~crashed
    /\ id \in DOMAIN workers /\ workers[id].pc = "done"
    /\ views' = views \ {POPUP_VIEW}
    /\ direct' = direct \cup {POPUP_VIEW}
    /\ workers' = [j \in DOMAIN workers \ {id} |-> workers[j]]
    /\ UNCHANGED <<ed, viewIndex, historyIndex, currentPopup, history, arrays, requests,
                   currentView, Cursor, size, rects, buf, vrh, vrb, vrbTitle, search, config,
                   updates, list, dialog, crashed,
                   caps, shrunk, submits, sent, clears, appended, failed, touched>>

\* ------------------------------------------------------------------ the editors

AUTOCOMPLETE_VIEW == "autocomplete_view"

\* gocui's key events: Edit(v, key, ch, mod), "" for the zero key and the zero rune
ModNone == ""
ModAlt == "Alt"
KeyEnter == "Enter"
KeyBackspace == "Backspace"
KeyArrowLeft == "ArrowLeft"
Rune(c) == [key |-> "", ch |-> c, mod |-> ModNone]
Key(k) == [key |-> k, ch |-> "", mod |-> ModNone]

\* the event a terminal sends first for Shift+Tab, and the one ViewEditor replays:
\* Edit(v, 0, '[', gocui.ModAlt)
AltBracket == [key |-> "", ch |-> "[", mod |-> ModAlt]

\* the panes whose editor writes text
TextPanes == RequestPanes \cup {SEARCH_VIEW}

\* the panes VIEW_PROPERTIES gives a singleLineEditor
SingleLinePanes == {URL_VIEW, REQUEST_METHOD_VIEW, SEARCH_VIEW}

\* the ViewEditor a pane's events end in: defaultEditor, shared by the panes
\* that take text, or the one getResponseViewEditor made for a response pane
EditorOf(name) ==
    IF name \in {RESPONSE_HEADERS_VIEW, RESPONSE_BODY_VIEW} THEN name ELSE "default"

\* the editors when g.MainLoop starts: no flag is set; setViewTextAndCursor has
\* put the cursor behind the text of the url, method and data panes, ParseArgs
\* has cleared the params and headers panes and written to them without moving
\* the cursor; a pane nothing was written to has no line
Editors(seed) ==
    [backTabEscape |-> [e \in {"default", RESPONSE_HEADERS_VIEW, RESPONSE_BODY_VIEW} |-> FALSE],
     cursor |-> [name \in TextPanes |->
                    IF name \in {URL_VIEW, REQUEST_METHOD_VIEW, REQUEST_DATA_VIEW}
                    THEN Len(seed[name]) ELSE 0],
     blank |-> {name \in TextPanes : name = SEARCH_VIEW \/ seed[name] = <<>>},
     isAutocompleting |-> FALSE,
     currentCompletions |-> <<>>,
     passed |-> <<>>,
     events |-> <<>>]

\* v.Buffer() without its last newline, for a pane that takes text
TextOf(w, name) == IF name = SEARCH_VIEW THEN w.search ELSE w.buf[name]

SetText(w, name, text, cx) ==
    [(IF name = SEARCH_VIEW THEN [w EXCEPT !.search = text] ELSE [w EXCEPT !.buf[name] = text])
        EXCEPT !.ed.cursor[name] = cx]

\* len(v.Buffer()): every line is followed by a newline
BufferLen(w, name) == IF name \in w.ed.blank THEN 0 ELSE Len(TextOf(w, name)) + 1

\* v.EditWrite(ch), and v.EditNewLine() for the rune NL: the rune goes in at the
\* cursor, the cursor moves behind it, and a view without a line gets one
EditWrite(w, name, ch) ==
    LET text == TextOf(w, name)
        cx == w.ed.cursor[name]
    IN [SetText(w, name, SubSeq(text, 1, cx) \o <<ch>> \o SubSeq(text, cx + 1, Len(text)), cx + 1)
           EXCEPT !.ed.blank = @ \ {name}]

\* v.EditDelete(back): the rune before or under the cursor goes, a newline
\* included (the two lines are merged); nothing goes at either end of the text
EditDelete(w, name, back) ==
    LET text == TextOf(w, name)
        cx == w.ed.cursor[name]
    IN IF back
       THEN IF cx > 0
            THEN SetText(w, name, SubSeq(text, 1, cx - 1) \o SubSeq(text, cx + 1, Len(text)), cx - 1)
            ELSE w
       ELSE IF cx < Len(text)
            THEN SetText(w, name, SubSeq(text, 1, cx) \o SubSeq(text, cx + 2, Len(text)), cx)
            ELSE w

\* gocui.DefaultEditor for the keys of the model: a rune without a modifier is
\* written, Backspace deletes backwards, Enter breaks the line, ArrowLeft moves
\* the cursor, and an event with a modifier and no key does nothing
simpleEditor(w, name, ev) ==
    CASE ev.ch # "" /\ ev.mod = ModNone -> EditWrite(w, name, ev.ch)
      [] ev.ch = "" /\ ev.key = KeyBackspace -> EditDelete(w, name, TRUE)
      [] ev.ch = "" /\ ev.key = KeyEnter -> EditWrite(w, name, NL)
      [] ev.ch = "" /\ ev.key = KeyArrowLeft ->
            IF w.ed.cursor[name] > 0 THEN [w EXCEPT !.ed.cursor[name] = @ - 1] ELSE w
      [] OTHER -> w

\* e.origEditor.Edit(v, key, ch, mod): gocui.DefaultEditor for defaultEditor and
\* an editor that does nothing for a response pane; passed records the event,
\* with the number of the key event that is being handled
origEditor(w, name, ev) ==
    LET w1 == [w EXCEPT !.ed.passed =
                   Append(@, [view |-> name, ev |-> ev, n |-> Len(w.ed.events) + 1])]
    IN IF EditorOf(name) = "default" THEN simpleEditor(w1, name, ev) ELSE w1

\* ViewEditor.Edit for the keys of the model (none of them is ArrowDown)
ViewEditorEdit(w, name, ev) ==
    LET e == EditorOf(name)
        w1 == IF w.ed.backTabEscape[e] /\ ev.ch # "Z" THEN origEditor(w, name, AltBracket) ELSE w
    IN IF w.ed.backTabEscape[e] /\ ev.ch = "Z"
       THEN [PrevView(w) EXCEPT !.ed.backTabEscape[e] = FALSE]
       ELSE IF ev.ch = "[" /\ ev.mod = ModAlt
            THEN [w1 EXCEPT !.ed.backTabEscape[e] = TRUE]
            ELSE origEditor(w1, name, ev)

\* SearchEditor.Edit
SearchEditorEdit(w, name, ev) == PrintBody(ViewEditorEdit(w, name, ev))

\* a singleLineEditor that gives Enter to the editor it wraps
singleLineEditorForwardsEnter(w, name, ev) ==
    LET wuzzEditor(x) == IF name = SEARCH_VIEW THEN SearchEditorEdit(x, name, ev)
                         ELSE ViewEditorEdit(x, name, ev)
    IN IF ev.ch # "" /\ ev.mod = ModNone
       THEN LET w1 == wuzzEditor(w)
                ox == w1.ed.cursor[name]
            IN IF ox > 1 /\ ox >= BufferLen(w1, name) - 2
               THEN EditDelete(w1, name, FALSE)
               ELSE w1
       ELSE wuzzEditor(w)

\* singleLineEditor.Edit for the keys of the model: the editor it wraps is the
\* SearchEditor in the search pane and defaultEditor in the url and method panes
singleLineEditorEdit(w, name, ev) ==
    LET wuzzEditor(x) == IF name = SEARCH_VIEW THEN SearchEditorEdit(x, name, ev)
                         ELSE ViewEditorEdit(x, name, ev)
    IN IF ev.ch # "" /\ ev.mod = ModNone
       THEN LET w1 == wuzzEditor(w)
                ox == w1.ed.cursor[name]
            IN IF ox > 1 /\ ox >= BufferLen(w1, name) - 2
               THEN EditDelete(w1, name, FALSE)
               ELSE w1
       ELSE IF ev.key = KeyEnter
            THEN w
            ELSE wuzzEditor(w)

\* the runes of the model that symbolPattern, [a-zA-Z0-9-]+$, matches
symbolPattern == {"a", "b", "c", "Z", "-", "1"}

\* line[:cx]: the text of the cursor's line left of the cursor
LineLeft(text, cx) ==
    LET breaks == {i \in 1..cx : text[i] = NL}
        from == IF breaks = {} THEN 0 ELSE CHOOSE i \in breaks : \A j \in breaks : j <= i
    IN SubSeq(text, from + 1, cx)

getLastSymbol(str) ==
    LET fits == {k \in 0..Len(str) : \A i \in (Len(str) - k + 1)..Len(str) : str[i] \in symbolPattern}
    IN SubSeq(str, Len(str) - (CHOOSE k \in fits : \A j \in fits : j <= k) + 1, Len(str))

\* strings.HasPrefix
HasPrefix(s, prefix) == Len(prefix) <= Len(s) /\ SubSeq(s, 1, Len(prefix)) = prefix

\* the header names offered as completions: two names that begin alike and one
\* that begins like no other
REQUEST_HEADERS == << <<"a", "b">>, <<"a", "c">>, <<"c", "a">> >>

completeFromSlice(str, completions) ==
    IF str = <<>> \/ str[Len(str)] \in {SP, NL}
    THEN <<>>
    ELSE SelectSeq(completions, LAMBDA completion : HasPrefix(completion, str) /\ str # completion)

closeAutocomplete(w) == [w EXCEPT !.views = @ \ {AUTOCOMPLETE_VIEW}]

\* showAutocomplete: the overlay is made when it does not exist
showAutocomplete(w) == [w EXCEPT !.views = @ \cup {AUTOCOMPLETE_VIEW}]

\* v.EditDelete(true), n times
RECURSIVE DeleteBack(_, _, _)
DeleteBack(w, name, n) == IF n = 0 THEN w ELSE DeleteBack(EditDelete(w, name, TRUE), name, n - 1)

\* v.EditWrite(char) for every char of s
RECURSIVE WriteAll(_, _, _)
WriteAll(w, name, s) == IF s = <<>> THEN w ELSE WriteAll(EditWrite(w, name, Head(s)), name, Tail(s))

\* an end of AutocompleteEditor.Edit that shows the overlay whatever was found
SuggestAlways(w, lastSymbol) ==
    LET completions == completeFromSlice(lastSymbol, REQUEST_HEADERS)
        w1 == [closeAutocomplete(w) EXCEPT
                  !.ed.isAutocompleting = FALSE,
                  !.ed.currentCompletions =
                      IF Len(completions) = 1
                      THEN <<SubSeq(completions[1], Len(lastSymbol) + 1, Len(completions[1]))>>
                      ELSE completions]
    IN [showAutocomplete(w1) EXCEPT !.ed.isAutocompleting = TRUE]

\* the end of AutocompleteEditor.Edit: the overlay is closed, the candidates
\* for lastSymbol are worked out and kept, and when there are any they are
\* shown; a single candidate is cut down to what is left to type, in the slice
\* that currentCompletions shares
Suggest(w, lastSymbol) ==
    LET completions == completeFromSlice(lastSymbol, REQUEST_HEADERS)
        w1 == [closeAutocomplete(w) EXCEPT
                  !.ed.isAutocompleting = FALSE,
                  !.ed.currentCompletions =
                      IF Len(completions) = 1
                      THEN <<SubSeq(completions[1], Len(lastSymbol) + 1, Len(completions[1]))>>
                      ELSE completions]
    IN IF Len(completions) > 0
       THEN [showAutocomplete(w1) EXCEPT !.ed.isAutocompleting = TRUE]
       ELSE w1

\* AutocompleteEditor.Edit, the editor of the headers pane; indexing an empty
\* currentCompletions panics
AutocompleteEditorEdit(w, name, ev) ==
    LET w1 == IF ev.key # KeyEnter THEN ViewEditorEdit(w, name, ev) ELSE w
        lastSymbol == getLastSymbol(LineLeft(TextOf(w1, name), w1.ed.cursor[name]))
    IN IF name \in w1.ed.blank
       THEN ViewEditorEdit(w1, name, ev)
       ELSE IF ev.key = KeyEnter /\ w1.ed.isAutocompleting
            THEN IF w1.ed.currentCompletions = <<>>
                 THEN Quit(w1)
                 ELSE LET w2 == IF Len(w1.ed.currentCompletions) # 1
                                THEN DeleteBack(w1, name, Len(lastSymbol))
                                ELSE w1
                          w3 == WriteAll(w2, name, w1.ed.currentCompletions[1])
                      IN [closeAutocomplete(w3) EXCEPT !.ed.isAutocompleting = FALSE]
            ELSE Suggest(IF ev.key = KeyEnter THEN ViewEditorEdit(w1, name, ev) ELSE w1,
                         lastSymbol)

\* v.Editor.Edit of the pane in focus
Edit(w, name, ev) ==
    CASE name \in SingleLinePanes -> singleLineEditorEdit(w, name, ev)
      [] name = REQUEST_HEADERS_VIEW -> AutocompleteEditorEdit(w, name, ev)
      [] OTHER -> ViewEditorEdit(w, name, ev)

\* what a key event did, kept in events: the event, the pane it went to, the
\* pane in focus and the flag of that pane's ViewEditor afterwards, whether the
\* pane's text and cursor are as before, and for the headers pane the
\* suggestions before it and the line left of the cursor after it
Handled(w0, w, name, ev) ==
    [w EXCEPT !.ed.events =
        Append(@, [ev |-> ev, view |-> name, after |-> w.currentView,
                   idle |-> ~w.ed.backTabEscape[EditorOf(name)],
                   same |-> name \in TextPanes =>
                               /\ TextOf(w, name) = TextOf(w0, name)
                               /\ w.ed.cursor[name] = w0.ed.cursor[name],
                   auto |-> w0.ed.isAutocompleting,
                   comps |-> w0.ed.currentCompletions,
                   sym |-> IF name = REQUEST_HEADERS_VIEW
                           THEN getLastSymbol(LineLeft(TextOf(w0, name), w0.ed.cursor[name]))
                           ELSE <<>>,
                   left |-> IF name = REQUEST_HEADERS_VIEW
                            THEN LineLeft(TextOf(w, name), w.ed.cursor[name])
                            ELSE <<>>,
                   overlay |-> AUTOCOMPLETE_VIEW \in w.views])]

\* ------------------------------------------------------------------ the event loop

\* what an event-loop step leaves alone: the goroutines' own state and the counters
LoopFrame == UNCHANGED <<workers, direct, appended, failed, caps>>

\* one pass of g.MainLoop: the handler's outcome w, then the layout pass of flush
Loop(w) == \E v \in {w} : \E laid \in {IF v.crashed THEN v ELSE Layout(v)} : Commit(laid)

\* the second half of the closure of PrintBody: the outcome found of the search
\* is printed for the request id: its error, "no results", or the results
PrintSearch(w, id, found) ==
    IF found.err # ""
    THEN [w EXCEPT !.vrb = <<[kind |-> "Search error", id |-> id, err |-> found.err]>>]
    ELSE IF Len(found.results) = 0
    THEN [w EXCEPT !.vrbTitle = [text |-> "No results", n |-> 0],
                   !.vrb = <<Chunk("Error: no results", id)>>]
    ELSE [w EXCEPT !.vrbTitle = [text |-> "%d results", n |-> Len(found.results)],
                   !.vrb = [i \in 1..Len(found.results) |->
                               [kind |-> "result", id |-> id, text |-> found.results[i]]]]

\* the closure App.PrintBody posts: the pane is cleared and titled with the
\* formatter's tag; with no search text, or a formatter that cannot search, the
\* body is formatted; else the search runs, with the text formatter unless the
\* search is context specific
PrintBodyUpdate(w) ==
    IF w.history.len = 0 THEN w
    ELSE IF w.historyIndex < 0 \/ w.historyIndex >= w.history.len THEN Quit(w)
    ELSE LET id == HistoryAt(w, w.historyIndex)
             req == w.requests[id]
             search_text == TrimSpace(w.search)
             titled == [w EXCEPT !.vrb = <<>>,
                                 !.vrbTitle = [text |-> "Response body " \o Title(req.Formatter),
                                               n |-> 0]]
             formatted == Format(req.Formatter, id, req.RawResponseBody)
             responseFormatter == IF w.config.ContextSpecificSearch THEN req.Formatter
                                                                    ELSE DEFAULT_FORMATTER
         IN IF req.RawResponseBody = NilBody THEN w
            ELSE IF search_text = <<>> \/ ~Searchable(req.Formatter)
            THEN [titled EXCEPT !.vrb = IF formatted.err = "" THEN formatted.out
                                         ELSE <<Chunk("Error: cannot decode response body", id)>>]
            ELSE PrintSearch(titled, id,
                             Search(responseFormatter, search_text, req.RawResponseBody))

\* the closure u, run by the event loop
ApplyUpdate(w, u) ==
    CASE u.kind = "print" -> [w EXCEPT !.vrb = @ \o u.text]
      [] u.kind = "clearAndPrint" -> [w EXCEPT !.vrb = u.text]
      [] u.kind = "render" ->
            [PrintBody(w) EXCEPT !.vrh = @ \o u.text,
                                 !.requests[u.id].ResponseHeaders = u.text]
      [] u.kind = "PrintBody" -> PrintBodyUpdate(w)

RunUpdate(u) ==
    /\ ~crashed
    /\ BagIn(u, updates)
    /\ Loop(ApplyUpdate([World EXCEPT !.updates = @ (-) SetToBag({u})], u))
    /\ LoopFrame
    /\ UNCHANGED <<submits, sent, clears, touched, shrunk>>

\* the submit command: App.SubmitRequest up to the go statement
SubmitRequest ==
    /\ ~crashed
    /\ submits < caps.submits
    /\ LET id == Len(requests) + 1 IN
       /\ Loop(popup([World EXCEPT !.vrb = <<>>, !.vrh = <<>>,
                                   !.requests = Append(@, NewRequest)]))
       /\ workers' = workers @@ (id :> [pc |-> "build", h |-> NoHeader])
    /\ submits' = submits + 1
    /\ UNCHANGED <<sent, clears, direct, appended, failed, touched, shrunk, caps>>

\* the user gives a command that posts a closure only when fewer than MaxPending wait
PostsWithin(w) == w.updates = updates \/ BagCardinality(updates) < MaxPending

\* a command of the key table that sends nothing and leaves the history as it is
Command(w) ==
    /\ ~crashed
    /\ PostsWithin(w)
    /\ Loop(w)
    /\ LoopFrame
    /\ UNCHANGED <<submits, sent, clears, touched, shrunk>>

NextViewKey == Command(NextView(World))

PrevViewKey == Command(PrevView(World))

FocusKey(name) == Command(setViewByName(World, name))

HistoryKey == Command(ToggleHistory(World))

HelpKey == Command(ToggleHelp(World))

\* Enter in the method pane
MethodEnter ==
    /\ currentView = REQUEST_METHOD_VIEW
    /\ Command(ToggleMethodList(World))

\* Enter in the method list: the method under the cursor goes into the method pane
MethodListEnter ==
    /\ currentView = METHOD_LIST_VIEW
    /\ Command(closePopup(SetPane(World, REQUEST_METHOD_VIEW, <<METHODS[list.cy + 1]>>),
                          METHOD_LIST_VIEW))

\* arrow down in a list popup
CursDown ==
    /\ currentView \in {HISTORY_VIEW, METHOD_LIST_VIEW}
    /\ list.cy + 1 < list.lines
    /\ list.cy < MaxCy
    /\ Command(SetCursorY(World, list.cy + 1))

\* arrow up in a list popup
CursUp ==
    /\ currentView \in {HISTORY_VIEW, METHOD_LIST_VIEW}
    /\ list.cy > 0
    /\ Command(SetCursorY(World, list.cy - 1))

\* Enter in the history popup
HistoryEnter ==
    /\ ~crashed
    /\ currentView = HISTORY_VIEW
    /\ PostsWithin(HistoryEnterKey(World))
    /\ Loop(HistoryEnterKey(World))
    /\ touched' = (touched \/ list.cy < history.len)
    /\ LoopFrame
    /\ UNCHANGED <<submits, sent, clears, shrunk>>

ClearHistoryKey ==
    /\ ~crashed
    /\ clears < caps.clears
    /\ Loop(clearHistory(World))
    /\ clears' = clears + 1
    /\ touched' = TRUE
    /\ LoopFrame
    /\ UNCHANGED <<submits, sent, shrunk>>

\* the saveResponse, loadRequest and saveRequest commands
DialogKinds == {"saveResponse", "loadRequest", "saveRequest"}

OpenDialogKey(kind) == Command(OpenSaveDialog(World, kind))

\* Enter in the save dialog runs the closure it was opened with
DialogEnter(file, writeOk, msgLen) ==
    /\ currentView = SAVE_DIALOG_VIEW
    /\ Command(CASE dialog = "saveResponse" -> SaveResponseEnter(World, writeOk, msgLen)
                 [] dialog = "loadRequest" -> LoadRequestEnter(World, file)
                 [] dialog = "saveRequest" -> SaveRequestEnter(World, writeOk, msgLen))

\* ctrl+q in the save dialog
DialogCancel ==
    /\ currentView = SAVE_DIALOG_VIEW
    /\ Command(closePopup(World, SAVE_DIALOG_VIEW))

\* Enter in the save result
SaveResultEnter ==
    /\ currentView = SAVE_RESULT_VIEW
    /\ Command(closePopup(World, SAVE_RESULT_VIEW))

\* the terminal is resized
Resize(sz) ==
    /\ ~crashed
    /\ sz # size
    /\ Loop([World EXCEPT !.size = sz])
    /\ shrunk' = (shrunk \/ sz[1] < MIN_WIDTH \/ sz[2] < MIN_HEIGHT)
    /\ LoopFrame
    /\ UNCHANGED <<submits, sent, clears, touched>>

\* VIEW_PROPERTIES[RESPONSE_BODY_VIEW].title, the title Layout creates the pane with
PaneTitle == [text |-> "Response body", n |-> 0]

\* time.ParseDuration("1m"), in seconds
defaultTimeoutDuration == 60

\* config.DefaultConfig: a timeout of one minute, JSON formatting on, context
\* specific search off
DefaultConfig ==
    [Timeout |-> defaultTimeoutDuration, FormatJSON |-> TRUE, ContextSpecificSearch |-> FALSE]

\* the state when g.MainLoop starts: ParseArgs has laid the panes out and seeded
\* them, and nothing has been sent
Fresh(seed) ==
    [viewIndex |-> 0, historyIndex |-> 0, currentPopup |-> "",
     history |-> [arr |-> 1, len |-> 0], arrays |-> << <<>> >>, requests |-> <<>>,
     views |-> {}, currentView |-> VIEWS[1], Cursor |-> TRUE, size |-> <<80, 24>>,
     rects |-> Place(<<>>, <<80, 24>>, LayoutViews),
     buf |-> seed, vrh |-> <<>>, vrb |-> <<>>, vrbTitle |-> PaneTitle, search |-> <<>>,
     config |-> DefaultConfig, updates |-> EmptyBag, list |-> NoList,
     dialog |-> "", crashed |-> FALSE, ed |-> Editors(seed)]

\* the world w starts a run in which the user gives at most c.submits and
\* c.clears commands; done, dir, bad and snt tell what the submissions before it did
Start(w, c, done, dir, bad, snt) ==
    /\ viewIndex = w.viewIndex
    /\ historyIndex = w.historyIndex
    /\ currentPopup = w.currentPopup
    /\ history = w.history
    /\ arrays = w.arrays
    /\ requests = w.requests
    /\ views = w.views
    /\ currentView = w.currentView
    /\ Cursor = w.Cursor
    /\ size = w.size
    /\ rects = w.rects
    /\ buf = w.buf
    /\ vrh = w.vrh
    /\ vrb = w.vrb
    /\ vrbTitle = w.vrbTitle
    /\ search = w.search
    /\ config = w.config
    /\ updates = w.updates
    /\ list = w.list
    /\ dialog = w.dialog
    /\ workers = <<>>
    /\ crashed = w.crashed
    /\ ed = w.ed
    /\ submits = Len(w.requests)
    /\ sent = snt
    /\ clears = 0
    /\ direct = dir
    /\ appended = done
    /\ failed = bad
    /\ touched = FALSE
    /\ shrunk = FALSE
    /\ caps = c

Init ==
    \E seed \in Seeds :
        Start(Fresh(seed), [submits |-> MaxSubmits, clears |-> MaxClears], {}, {}, {}, <<>>)

WorkerStep ==
    \E id \in DOMAIN workers :
        \/ \E openOk \in BOOLEAN : WorkerBuild(id, openOk)
        \/ \E outcome \in DoOutcomes : WorkerDo(id, outcome, PlainResponse)
        \/ WorkerStore(id)
        \/ WorkerIndex(id)
        \/ WorkerDone(id)

Next ==
    \/ SubmitRequest
    \/ WorkerStep
    \/ \E u \in BagToSet(updates) : RunUpdate(u)
    \/ HistoryKey
    \/ CursDown
    \/ CursUp
    \/ HistoryEnter
    \/ ClearHistoryKey

Spec == Init /\ [][Next]_vars

\* ------------------------------------------------------------------ the popups and the focus

\* the world after one more submission has run to its end from the settled world
\* w, with nothing else in between: the request built from the panes, the outcome
\* of the exchange, the append, and the two closures the event loop then runs
AfterSubmit(w, outcome) ==
    LET id == Len(w.requests) + 1
        r == [BuildRequest(w.buf, TRUE).r EXCEPT
                 !.ContentType = PlainResponse.ContentType,
                 !.RawResponseBody = IF outcome = "ok" THEN PlainResponse.Body ELSE NilBody,
                 !.Formatter = New(w.config, PlainResponse.ContentType),
                 !.ResponseHeaders = <<Chunk("headers", id)>>]
        a == GoAppend(w.arrays, w.history, id)
    IN [w EXCEPT !.requests = Append(@, r),
                 !.arrays = a.arrays,
                 !.history = a.header,
                 !.historyIndex = a.header.len - 1,
                 !.rects = Place(@, w.size, {POPUP_VIEW}),
                 !.vrh = <<Chunk("headers", id)>>,
                 !.vrb = IF outcome = "ok" THEN <<Chunk("body", id)>> ELSE <<>>,
                 !.vrbTitle = IF outcome = "ok"
                              THEN [text |-> "Response body [text]", n |-> 0]
                              ELSE w.vrbTitle]

\* the sessions the popup and focus commands are run in: nothing sent yet, and
\* two requests sent, the first answered and the second with a body that could
\* not be read
Sessions ==
    LET s0 == Fresh(DefaultSeed)
        s2 == AfterSubmit(AfterSubmit(s0, "ok"), "readErr")
    IN <<s0, s2>>

InitUI ==
    \E k \in 1..Len(Sessions) :
        Start(Sessions[k], [submits |-> 0, clears |-> 0],
              1..Len(Sessions[k].requests),
              IF k = 1 THEN {} ELSE (RequestPanes \ {REQUEST_DATA_VIEW}) \cup {POPUP_VIEW},
              IF k = 1 THEN {} ELSE {2},
              [i \in 1..Len(Sessions[k].requests) |-> DefaultSeed])

\* a run of Spec has reached the session k that InitUI starts from
AtSession(k) ==
    /\ World = Sessions[k]
    /\ workers = <<>>

NextUI ==
    \/ \E u \in BagToSet(updates) : RunUpdate(u)
    \/ HistoryKey
    \/ CursDown
    \/ CursUp
    \/ HistoryEnter
    \/ NextViewKey
    \/ PrevViewKey
    \/ \E i \in 1..Len(VIEWS) : FocusKey(VIEWS[i])
    \/ HelpKey
    \/ MethodEnter
    \/ MethodListEnter
    \/ \E kind \in DialogKinds : OpenDialogKey(kind)
    \/ \E file \in LoadFiles, writeOk \in BOOLEAN, msgLen \in MsgLens :
           DialogEnter(file, writeOk, msgLen)
    \/ DialogCancel
    \/ SaveResultEnter
    \/ \E sz \in Sizes : Resize(sz)

SpecUI == InitUI /\ [][NextUI]_vars

\* ------------------------------------------------------------------ the search

\* a toggle that gives every entry the formatter the search then uses
toggleReformats(w) ==
    PrintBody([w EXCEPT !.config.ContextSpecificSearch = ~@,
                        !.requests = [i \in 1..Len(@) |->
                                         [@[i] EXCEPT !.Formatter = DEFAULT_FORMATTER]]])

\* the toggleContextSpecificSearch command
toggleContextSpecificSearch(w) ==
    PrintBody([w EXCEPT !.config.ContextSpecificSearch = ~@])

ToggleSearchKey == Command(toggleContextSpecificSearch(World))

\* the texts the user types into the search pane: abc, a.b, a.c, n, ( and x
Queries == {<<"a", "b", "c">>, <<"a", ".", "b">>, <<"a", ".", "c">>, <<"n">>, <<"(">>, <<"x">>}

\* SearchEditor.Edit: a keystroke in the search pane adds a character to the
\* text or deletes its last one, and the closure of PrintBody is posted
SearchEdit ==
    /\ currentView = SEARCH_VIEW
    /\ \E q \in Queries, k \in 0..3 :
          /\ k <= Len(q)
          /\ \/ k = Len(search) + 1 /\ SubSeq(q, 1, k - 1) = search
             \/ k = Len(search) - 1 /\ SubSeq(search, 1, k) = SubSeq(q, 1, k)
          /\ Command(PrintBody([World EXCEPT !.search = SubSeq(q, 1, k)]))

\* the bodies of the responses: abcabc, the two JSON documents, and one match
\* more of "a" than FindAll is asked for
Bodies == {<<"a", "b", "c", "a", "b", "c">>, Raw(DocAB), Raw(DocN),
           [i \in 1..(MaxMatches + 1) |-> "a"]}

\* the responses a server gives: every content type with the first body, the
\* JSON documents under a JSON, an HTML, a text and a binary content type, and
\* the long body as plain text
Responses ==
    [ContentType : MediaTypes, Body : {<<"a", "b", "c", "a", "b", "c">>}]
    \cup [ContentType : {ContentTypesJson, <<"text", "/", "html">>, <<"text", "/", "plain">>,
                         <<"octet-stream">>},
          Body : {Raw(DocAB), Raw(DocN)}]
    \cup [ContentType : {<<"text", "/", "plain">>}, Body : {[i \in 1..(MaxMatches + 1) |-> "a"]}]

\* one request is sent, with either setting of the two options of the
\* configuration file
InitSearch ==
    \E c \in [Timeout : {defaultTimeoutDuration}, FormatJSON : BOOLEAN,
               ContextSpecificSearch : BOOLEAN] :
        Start([Fresh(DefaultSeed) EXCEPT !.config = c], [submits |-> 1, clears |-> 0],
              {}, {}, {}, <<>>)

NextSearch ==
    \/ SubmitRequest
    \/ \E id \in DOMAIN workers :
           \/ WorkerBuild(id, TRUE)
           \/ \E outcome \in DoOutcomes, response \in Responses : WorkerDo(id, outcome, response)
           \/ WorkerStore(id)
           \/ WorkerIndex(id)
           \/ WorkerDone(id)
    \/ \E u \in BagToSet(updates) : RunUpdate(u)
    \/ FocusKey(SEARCH_VIEW)
    \/ SearchEdit
    \/ ToggleSearchKey

SpecSearch == InitSearch /\ [][NextSearch]_vars

\* ------------------------------------------------------------------ the layout

\* the program starts in a terminal that is large enough (ParseArgs ends it in
\* one that is not) and ParseArgs has run the first layout pass
InitLayout ==
    \E sz \in LayoutSizes :
        /\ sz[1] >= MIN_WIDTH /\ sz[2] >= MIN_HEIGHT
        /\ Start([Fresh(DefaultSeed) EXCEPT !.size = sz,
                                            !.rects = Place(<<>>, sz, LayoutViews)],
                 [submits |-> 1, clears |-> 0], {}, {}, {}, <<>>)

NextLayout ==
    \/ \E sz \in LayoutSizes : Resize(sz)
    \/ SubmitRequest
    \/ \E id \in DOMAIN workers :
           \/ WorkerBuild(id, TRUE)
           \/ WorkerDo(id, "ok", PlainResponse)
           \/ WorkerStore(id)
           \/ WorkerIndex(id)
           \/ WorkerDone(id)
    \/ \E u \in BagToSet(updates) : RunUpdate(u)

SpecLayout == InitLayout /\ [][NextLayout]_vars

\* ------------------------------------------------------------------ the popups

\* the widths and heights CreatePopupView is asked for
PopupWidths == {0, 1, 36, 50, 57, 60, 100, 200}
PopupHeights == {0, 1, 9, 17, 40, 100}

InitPopup ==
    \E sz \in PopupSizes :
        Start([Fresh(DefaultSeed) EXCEPT !.size = sz, !.rects = Place(<<>>, sz, LayoutViews)],
              [submits |-> 0, clears |-> 0], {}, {}, {}, <<>>)

\* a command that opens the popup name with CreatePopupView(name, width, height)
OpenPopup(name, width, height) ==
    \E c \in {CreatePopupView(World, name, width, height)} :
        Command(IF c.err THEN Quit(c.w) ELSE [c.w EXCEPT !.currentView = name])

\* the popup that is open is closed
ClosePopupKey ==
    /\ currentPopup # ""
    /\ Command(closePopup(World, currentPopup))

NextPopup ==
    \/ \E name \in PopupNames, width \in PopupWidths, height \in PopupHeights :
           OpenPopup(name, width, height)
    \/ ClosePopupKey

SpecPopup == InitPopup /\ [][NextPopup]_vars

\* ------------------------------------------------------------------ the submissions alone

InitSubmit ==
    \E seed \in SubmitSeeds :
        Start(Fresh(seed), [submits |-> MaxSubmits, clears |-> 0], {}, {}, {}, <<>>)

NextSubmit ==
    \/ SubmitRequest
    \/ WorkerStep
    \/ \E u \in BagToSet(updates) : RunUpdate(u)

SpecSubmit == InitSubmit /\ [][NextSubmit]_vars

\* ------------------------------------------------------------------ the query

\* URLs without a query, with one, with two keys out of order, with a key twice
\* and with an escaped value
QueryUrls ==
    {<<"http://h">>,
     <<"http://h", "?", "a", "=", "1">>,
     <<"http://h", "?", "b", "=", "2", "&", "a", "=", "1">>,
     <<"http://h", "?", "a", "=", "1", "&", "a", "=", "2">>,
     <<"http://h", "?", "a", "=", "%3A", "+">>}

\* texts of the params pane: empty, one pair, two keys, a key twice, a value to escape
QueryParams ==
    {<<>>,
     <<"a", "=", "2">>,
     <<"b", "=", "1", NL, "a", "=", "2">>,
     <<"a", "=", "2", NL, "a", "=", "1">>,
     <<"f", "=", ":", SP>>}

InitQuery ==
    \E u \in QueryUrls, p \in QueryParams :
        Start(Fresh([DefaultSeed EXCEPT ![URL_VIEW] = u, ![URL_PARAMS_VIEW] = p]),
              [submits |-> 1, clears |-> 0], {}, {}, {}, <<>>)

SpecQuery == InitQuery /\ [][NextSubmit]_vars

\* ------------------------------------------------------------------ the timeout

\* the timeouts a configuration file gives CLIENT.Timeout: UnmarshalText takes
\* any duration, "0s" included, and http.Client sets no deadline for zero
ConfigTimeouts == {0, defaultTimeoutDuration}

InitTimeout ==
    \E t \in ConfigTimeouts :
        Start([Fresh(DefaultSeed) EXCEPT !.config.Timeout = t],
              [submits |-> MaxSubmits, clears |-> 0], {}, {}, {}, <<>>)

\* CLIENT.Do returns without an answer of the server: the deadline of
\* CLIENT.Timeout has passed, or http.NewRequest refused the method
Deadline(id) ==
    /\ id \in DOMAIN workers /\ workers[id].pc = "do"
    /\ config.Timeout > 0 \/ NewRequestFails(requests[id].Method)
    /\ WorkerDo(id, "doErr", PlainResponse)

\* a step the goroutine id takes by itself
WorkerRuns(id) ==
    \/ \E openOk \in BOOLEAN : WorkerBuild(id, openOk)
    \/ Deadline(id)
    \/ WorkerStore(id)
    \/ WorkerIndex(id)
    \/ WorkerDone(id)

\* the Go scheduler runs every goroutine that can run; a server need not answer,
\* so of the network call only the deadline is sure to come
WorkersFair == \A id \in 1..MaxSubmits : WF_vars(WorkerRuns(id))

SpecTimeout == InitTimeout /\ [][NextSubmit]_vars /\ WorkersFair

\* ------------------------------------------------------------------ the history and the submissions

\* every submission so far has run to its end and succeeded, and neither a
\* restore nor clearHistory has run
AllSucceeded == workers = <<>> /\ failed = {} /\ ~touched /\ submits > 0

\* C1: when N submissions have completed successfully, one after the other or
\* with several goroutines in flight at once, and no other command changed the
\* history, then len(history) = N and historyIndex = N - 1.
C1_HistoryCountsSubmissions ==
    AllSucceeded => (history.len = submits /\ historyIndex = submits - 1)

\* two submissions succeeded one after the other: the case in which the count is right
C1_Sequential ==
    AllSucceeded /\ submits = 2 /\ history.len = 2 /\ historyIndex = 1

\* the Enter binding of the history popup restores the entry under the cursor
RestoresEntry == HistoryEnter /\ list.cy < history.len

\* C2: restoring the history entry a successful submission appended leaves each
\* of the five request panes with the text it had when the submission read it.
C2_RestoreGivesBackPanes ==
    [][(RestoresEntry /\ HistoryAt(World, list.cy) \notin failed)
          => buf' = sent[HistoryAt(World, list.cy)]]_vars

\* a request goroutine has taken a step: the submit command adds a goroutine and
\* counts itself, and no other step of the event loop touches the goroutines
GoroutineStep == workers' # workers /\ submits' = submits

\* the event loop has run the clearHistory command
ClearHistoryStep == clears' # clears

C4_RestoreFrame ==
    \A idx \in -1..(MaxSubmits + 1) :
        LET w2 == restoreRequest(World, idx) IN
        IF idx < 0 \/ idx >= history.len
        THEN w2 = World
        ELSE LET r == requests[HistoryAt(World, idx)] IN
             /\ w2.history = history /\ w2.arrays = arrays /\ w2.requests = requests
             /\ w2.historyIndex = idx
             /\ w2.views = views \ {HISTORY_VIEW}
             /\ w2.currentPopup = (IF HISTORY_VIEW \in views THEN "" ELSE currentPopup)
             /\ w2.buf[URL_VIEW] = r.Url
             /\ w2.buf[REQUEST_METHOD_VIEW] = r.Method
             /\ w2.buf[URL_PARAMS_VIEW] = r.GetParams
             /\ w2.buf[REQUEST_DATA_VIEW] = r.Data
             /\ w2.buf[REQUEST_HEADERS_VIEW] = r.Headers
             /\ w2.vrh = r.ResponseHeaders
             /\ w2.updates = updates (+) SetToBag({[kind |-> "PrintBody", id |-> 0, text |-> <<>>]})
             /\ w2.viewIndex = viewIndex /\ w2.size = size /\ w2.vrb = vrb
             /\ w2.dialog = dialog /\ w2.crashed = crashed

\* the first of two entries has been restored from the history popup
C4_FirstOfTwoRestored ==
    /\ touched /\ clears = 0
    /\ history.len = 2 /\ historyIndex = 0
    /\ workers = <<>>
    /\ HISTORY_VIEW \notin views
    /\ buf[URL_PARAMS_VIEW] = requests[HistoryAt(World, 0)].GetParams

\* ------------------------------------------------------------------ the popup slot and the focus

\* the popup views gocui holds
OpenPopups == views \cap PopupNames

\* C5: after any sequence of popup commands at most one popup view exists, and
\* it exists exactly when currentPopup names it; so a popup opened while
\* another is open is the only one left.
C5_OnePopup ==
    /\ Cardinality(OpenPopups) <= 1
    /\ \A p \in PopupNames : p \in views <=> currentPopup = p
    /\ currentPopup \in PopupNames \cup {""}

\* the save result is open: the Enter of the save dialog opened it while the
\* dialog was open, and the dialog is gone
C5_ResultReplacedDialog ==
    /\ currentPopup = SAVE_RESULT_VIEW
    /\ OpenPopups = {SAVE_RESULT_VIEW}
    /\ currentView = SAVE_RESULT_VIEW

\* C6: a step that closes the popup, opening no other, leaves the focus on
\* VIEWS[viewIndex] with the cursor on; viewIndex is the pane that had the
\* focus before the popup was opened, since opening or replacing a popup does
\* not move it and no popup is open after a step that does.
C6_CloseRestoresFocus ==
    [][/\ (OpenPopups # {} /\ OpenPopups' = {} /\ ~crashed')
            => (currentView' = VIEWS[viewIndex' + 1] /\ Cursor' = TRUE)
       /\ (OpenPopups = {} /\ ~crashed) => currentView = VIEWS[viewIndex + 1]
       /\ OpenPopups' # {} => viewIndex' = viewIndex]_vars

\* Enter in the method list, opened from the method pane, has put the third
\* method into the pane and closed the list
C6_MethodChosen ==
    /\ buf[REQUEST_METHOD_VIEW] = <<METHODS[3]>>
    /\ OpenPopups = {}
    /\ currentView = REQUEST_METHOD_VIEW
    /\ VIEWS[viewIndex + 1] = REQUEST_METHOD_VIEW
    /\ Cursor

\* ------------------------------------------------------------------ the request goroutine and the event loop

\* C7: the goroutine of a submission never reads or writes pane or view state
\* itself: every pane read, pane write and view deletion of a submission is
\* done on the event loop, in a posted closure.
C7_GoroutineTouchesNoView == direct = {}

\* C8: history, historyIndex, currentPopup and viewIndex are written only by
\* steps of the event loop; a request goroutine writes none of them.
C8_LoopIsTheOnlyWriter ==
    [][GoroutineStep => /\ history' = history
                        /\ historyIndex' = historyIndex
                        /\ currentPopup' = currentPopup
                        /\ viewIndex' = viewIndex]_vars

\* C9: the "Sending request.." view exists from the submit command until the
\* goroutine of that submission has ended, for every submission in flight.
C9_PopupWhileInFlight == workers # <<>> => POPUP_VIEW \in views

\* C10: a submission that fails at any stage, the reading of the response
\* body among them, appends no history entry.
C10_FailureAppendsNothing == failed \cap appended = {}

\* ------------------------------------------------------------------ submissions that cannot be sent

\* the pane texts b hold a URL url.Parse refuses, or a headers text with a
\* non-empty line that is not "Name: Value"
BadSubmission(b) ==
    \/ UrlParseFails(TrimSpace(b[URL_VIEW]))
    \/ HeadersBad(TrimSpace(b[REQUEST_HEADERS_VIEW]))

\* the goroutine id has got as far as http.NewRequest and CLIENT.Do, or past them
ReachedNetwork(ws, id) == id \in DOMAIN ws /\ ws[id].pc \in {"do", "store", "index"}

\* C11: a submission whose URL does not parse, or whose headers text has a
\* non-empty line not of the form "Name: Value", reports the error in a posted
\* closure and ends before http.NewRequest and CLIENT.Do: at no time has its
\* goroutine reached the network call, received a response or appended an entry.
C11_BadSubmissionSendsNothing ==
    [][/\ \A id \in DOMAIN workers :
              (workers[id].pc = "build" /\ workers'[id].pc # "build" /\ BadSubmission(buf))
              => /\ workers'[id].pc = "done"
                 /\ \E msg \in {"URL parse error", "Invalid GET parameters", "Invalid header"} :
                        /\ BagIn(ErrUpdate(msg, id), updates')
                        /\ ~BagIn(ErrUpdate(msg, id), updates)
       /\ \A id \in DOMAIN sent' :
              BadSubmission(sent'[id])
              => /\ ~ReachedNetwork(workers', id)
                 /\ id \in failed' /\ id \notin appended'
                 /\ requests'[id].ContentType = <<>>]_vars

\* a submission with a bad header line has ended and its message is in the
\* response-body pane
C11_InvalidHeaderShown ==
    \E id \in DOMAIN sent :
        /\ ~UrlParseFails(TrimSpace(sent[id][URL_VIEW]))
        /\ HeadersBad(TrimSpace(sent[id][REQUEST_HEADERS_VIEW]))
        /\ id \notin DOMAIN workers
        /\ \E i \in 1..Len(vrb) : vrb[i] = Chunk("Invalid header", id)

\* ------------------------------------------------------------------ the formatters

\* the requests that have been given a formatter
Formatted == {id \in 1..Len(requests) : requests[id].Formatter # ""}

\* the response panes show the entry at historyIndex and nothing is pending
Settled ==
    /\ workers = <<>> /\ updates = EmptyBag /\ ~crashed
    /\ history.len > 0
    /\ requests[HistoryAt(World, historyIndex)].RawResponseBody # NilBody

C13_CaseAndParametersIgnored ==
    \A id \in Formatted, t \in MediaTypes :
        (/\ ~ParseMediaType(t).err /\ ~ParseMediaType(requests[id].ContentType).err
         /\ ParseMediaType(t).mediatype = ParseMediaType(requests[id].ContentType).mediatype)
        => New(config, t) = requests[id].Formatter

\* a response of type TEXT/HTML is shown by the binary formatter
C13_UpperCaseHtmlIsBinary ==
    /\ Settled
    /\ requests[HistoryAt(World, historyIndex)].ContentType = <<"TEXT", "/", "HTML">>
    /\ vrbTitle.text = "Response body [binary]"

\* C14: with FormatJSON off a response of a JSON content type is not given the
\* JSON formatter and its body is shown as it was received; with FormatJSON on
\* it is given the JSON formatter.
C14_FormatJSONOption ==
    \A id \in Formatted :
        LET mt == ParseMediaType(requests[id].ContentType) IN
        (~mt.err /\ (mt.mediatype = <<"application", "/", "json">>
                     \/ (Len(mt.mediatype) >= 2 /\ mt.mediatype[Len(mt.mediatype)] = "json"
                                                /\ mt.mediatype[Len(mt.mediatype) - 1] = "+")))
        => IF config.FormatJSON
           THEN requests[id].Formatter = "jsonFormatter"
           ELSE /\ requests[id].Formatter # "jsonFormatter"
                /\ Format(requests[id].Formatter, id, requests[id].RawResponseBody).out
                       = <<Chunk("body", id)>>

\* with FormatJSON off, the body of an application/json; charset=utf-8 response
\* is in the pane as it was received
C14_JsonShownUnformatted ==
    /\ Settled /\ ~config.FormatJSON /\ search = <<>>
    /\ requests[HistoryAt(World, historyIndex)].ContentType
           = <<"application", "/", "json", ";", SP, "charset", "=", "utf-8">>
    /\ vrb = <<Chunk("body", HistoryAt(World, historyIndex))>>
    /\ vrbTitle.text = "Response body [text]"

\* C15: Searchable is false for the binary formatter and true for the text,
\* JSON and HTML formatters, and the binary formatter's Search is an error for
\* every query and body: with a text in the search pane the body of a binary
\* entry is shown formatted, that of the others is searched.
C15_OnlyBinaryIsNotSearchable ==
    \A id \in Formatted :
        LET f == requests[id].Formatter IN
        /\ Searchable(f) <=> f \in {"TextFormatter", "jsonFormatter", "htmlFormatter"}
        /\ ~Searchable(f) <=> Title(f) = "[binary]"
        /\ Title(f) = "[binary]" =>
              \A q \in Queries \cup {<<>>}, body \in Bodies : Search(f, q, body).err # ""
        /\ (Settled /\ id = HistoryAt(World, historyIndex) /\ TrimSpace(search) # <<>>) =>
              IF Title(f) = "[binary]"
              THEN vrb = <<Chunk("body hex dump", id)>>
              ELSE \A i \in 1..Len(vrb) : vrb[i].kind \in {"Search error", "Error: no results", "result"}

\* "abc" is in the search pane and the pane shows the hex dump of a binary body
C15_BinaryIgnoresSearchText ==
    /\ Settled /\ search = <<"a", "b", "c">>
    /\ requests[HistoryAt(World, historyIndex)].Formatter = "binaryFormatter"
    /\ vrb = <<Chunk("body hex dump", HistoryAt(World, historyIndex))>>

\* ------------------------------------------------------------------ the search of the response body

\* the entry the response panes show
Shown == requests[HistoryAt(World, historyIndex)]

\* the closure of PrintBody has searched the body shown: with the regular
\* expression of the text formatter, or with the path query of the JSON formatter
TextSearchRuns ==
    /\ Settled /\ TrimSpace(search) # <<>> /\ Searchable(Shown.Formatter)
    /\ ~config.ContextSpecificSearch \/ Shown.Formatter \in {"TextFormatter", "htmlFormatter"}

JsonSearchRuns ==
    /\ Settled /\ TrimSpace(search) # <<>>
    /\ config.ContextSpecificSearch /\ Shown.Formatter = "jsonFormatter"

\* the pattern q matches the body at position p
Hit(q, body, p) ==
    /\ p >= 1 /\ p + Len(q) - 1 <= Len(body)
    /\ \A k \in 1..Len(q) : q[k] = "." \/ q[k] = body[p + k - 1]

\* the closure of PrintBody is the closure this step runs
PrintBodyRuns ==
    /\ BagIn([kind |-> "PrintBody", id |-> 0, text |-> <<>>], updates)
    /\ updates' = updates (-) SetToBag({[kind |-> "PrintBody", id |-> 0, text |-> <<>>]})

Node == Get(ParseBytes(Shown.RawResponseBody), Split(TrimSpace(search), "."))

\* C18: on a JSON body a path that leads to a scalar gives the text of the
\* scalar, a path that leads to an object or array the indented sub-document,
\* and a path that leads to no node an error; the empty query gives the indented
\* body.  On {"a":{"b":1}} the path a.b gives 1 and the path a.c an error.
C18_JsonPathQuery ==
    /\ Search("jsonFormatter", <<"a", ".", "b">>, Raw(DocAB)) = [err |-> "", results |-> << <<"1">> >>]
    /\ Search("jsonFormatter", <<"a", ".", "c">>, Raw(DocAB)).err # ""
    /\ \A d \in Docs : Search("jsonFormatter", <<>>, Raw(d))
                           = [err |-> "", results |-> << <<"indented">> \o Raw(d) >>]
    /\ (JsonSearchRuns /\ ParseBytes(Shown.RawResponseBody).Type = "JSON") =>
          IF Node = [Type |-> "Null", text |-> <<>>]
          THEN Len(vrb) = 1 /\ vrb[1].kind = "Search error"
          ELSE IF Node.Type = "JSON"
          THEN vrb = <<[kind |-> "result", id |-> HistoryAt(World, historyIndex),
                        text |-> <<"indented">> \o Raw(Node)]>>
          ELSE /\ Len(vrb) = 1 /\ vrb[1].kind = "result"
               /\ Node.Type # "Null" => vrb[1].text = Node.text

\* the path a.b has been searched for in {"a":{"b":1}} and the pane shows 1
C18_ScalarShown ==
    /\ JsonSearchRuns
    /\ search = <<"a", ".", "b">> /\ Shown.RawResponseBody = Raw(DocAB)
    /\ vrb = <<[kind |-> "result", id |-> HistoryAt(World, historyIndex), text |-> <<"1">>]>>
    /\ vrbTitle = [text |-> "%d results", n |-> 1]

\* C19: a search that fails, its path leading to no node of the JSON body,
\* leaves the content the response-body pane showed before it as it was.
C19_FailedSearchKeepsContent ==
    [][(/\ PrintBodyRuns /\ ~crashed /\ workers = <<>>
        /\ history.len > 0 /\ Shown.RawResponseBody = Raw(DocAB)
        /\ vrb # <<>>
        /\ TrimSpace(search) # <<>>
        /\ config.ContextSpecificSearch /\ Shown.Formatter = "jsonFormatter"
        /\ Node = [Type |-> "Null", text |-> <<>>])
       => vrb' = vrb]_vars

\* what the closure of PrintBody shows with context specific search on, and off
WithSearchType(on) == PrintBodyUpdate([World EXCEPT !.config.ContextSpecificSearch = on])

\* C20: the toggle of context specific search changes the option and posts the
\* closure of PrintBody, and nothing else: no entry's formatter, not the panes.
\* The closure shows the same under either setting, title included, when the
\* search pane is empty or the formatter cannot search; when it searches, the
\* setting decides between the formatter's own Search and the text formatter's,
\* and a title that carries a formatter tag carries the tag of the entry's formatter.
C20_ToggleOnlySelectsSearch ==
    /\ toggleContextSpecificSearch(World)
          = [World EXCEPT !.config.ContextSpecificSearch = ~config.ContextSpecificSearch,
                          !.updates = @ (+) SetToBag({[kind |-> "PrintBody", id |-> 0,
                                                       text |-> <<>>]})]
    /\ (~crashed /\ history.len > 0 /\ historyIndex < history.len /\ Shown.RawResponseBody # NilBody) =>
          LET id == HistoryAt(World, historyIndex)
              onW == WithSearchType(TRUE)
              offW == WithSearchType(FALSE)
              formatted == Format(Shown.Formatter, id, Shown.RawResponseBody)
              Searched(w, found) ==
                  /\ found.err # "" => w.vrb[1].kind = "Search error"
                  /\ found.err = "" /\ found.results # <<>> =>
                        w.vrb = [i \in 1..Len(found.results) |->
                                    [kind |-> "result", id |-> id, text |-> found.results[i]]]
          IN /\ [onW EXCEPT !.vrb = <<>>, !.vrbTitle = PaneTitle]
                  = [offW EXCEPT !.vrb = <<>>, !.vrbTitle = PaneTitle,
                                 !.config.ContextSpecificSearch = TRUE]
             /\ onW.requests = requests
             /\ {onW.vrbTitle.text, offW.vrbTitle.text}
                   \subseteq {"Response body " \o Title(Shown.Formatter), "No results", "%d results"}
             /\ IF TrimSpace(search) = <<>> \/ ~Searchable(Shown.Formatter)
                THEN /\ onW.vrb = offW.vrb
                     /\ onW.vrbTitle = offW.vrbTitle
                     /\ onW.vrb = IF formatted.err = "" THEN formatted.out
                                  ELSE <<Chunk("Error: cannot decode response body", id)>>
                ELSE /\ Searched(onW, Search(Shown.Formatter, TrimSpace(search),
                                             Shown.RawResponseBody))
                     /\ Searched(offW, Search("TextFormatter", TrimSpace(search),
                                              Shown.RawResponseBody))

\* context specific search has just been switched on with a.b in the search
\* pane: the entry has its JSON formatter, the pane still shows the "no results"
\* of the text search, which a path query never gives, and the closure of
\* PrintBody is posted
C20_JustToggledOn ==
    /\ workers = <<>> /\ ~crashed /\ history.len > 0
    /\ config.ContextSpecificSearch
    /\ Shown.Formatter = "jsonFormatter" /\ Shown.RawResponseBody = Raw(DocAB)
    /\ search = <<"a", ".", "b">>
    /\ vrb = <<Chunk("Error: no results", HistoryAt(World, historyIndex))>>
    /\ vrbTitle.text = "No results"
    /\ BagIn([kind |-> "PrintBody", id |-> 0, text |-> <<>>], updates)

\* ------------------------------------------------------------------ the terminal that is too small

\* the terminal is below the size Layout asks for
TooSmall(sz) == sz[1] < MIN_WIDTH \/ sz[2] < MIN_HEIGHT

\* C21: while the terminal is below 60x20 and the error pane is displayed the
\* cursor is off, whatever popup and focus commands have run meanwhile, and a
\* layout pass in that state creates no pane.
C21_TooSmallCursorOff ==
    (TooSmall(size) /\ ERROR_VIEW \in views /\ ~crashed)
    => (~Cursor /\ Layout(World) = World)

\* the terminal is too small, the error pane is displayed, a popup has been
\* opened and closed, and the cursor is on
C21_CursorOnWhileTooSmall ==
    /\ TooSmall(size) /\ ERROR_VIEW \in views /\ ~crashed
    /\ OpenPopups = {}
    /\ Cursor

\* C22: when the terminal is at least 60x20 again after it was too small, the
\* layout pass that follows removes the error pane, switches the cursor on and
\* gives the focus to VIEWS[viewIndex], the pane that had it before; so the
\* error pane never outlives a layout pass of a terminal that is large enough.
C22_RestoreRefocuses ==
    /\ (~crashed /\ ~TooSmall(size)) => ERROR_VIEW \notin views
    /\ (~crashed /\ TooSmall(size) /\ ERROR_VIEW \in views) =>
          \A sz \in {z \in Sizes : ~TooSmall(z)} :
              LET w == Layout([World EXCEPT !.size = sz]) IN
              /\ ERROR_VIEW \notin w.views
              /\ w.Cursor
              /\ w.viewIndex = viewIndex
              /\ w.currentView = VIEWS[viewIndex + 1]

\* the terminal was too small with the focus moved to the method pane, and is
\* large enough again: the error pane is gone, the cursor is on and the method
\* pane has the focus
C22_RestoredToMethodPane ==
    /\ shrunk /\ ~TooSmall(size) /\ ~crashed
    /\ ERROR_VIEW \notin views
    /\ Cursor
    /\ viewIndex = 2 /\ currentView = REQUEST_METHOD_VIEW

\* ------------------------------------------------------------------ the coordinates

\* the views whose rectangle the last layout pass has set
Placed == IF TooSmall(size) THEN {ERROR_VIEW} ELSE LayoutViews

\* the dimension the i-th coordinate of a rectangle is resolved against
Dimension(i) == (IF i \in {1, 3} THEN size[1] ELSE size[2]) + 1

\* C23 as the specification words it: every coordinate is the fraction times
\* the dimension, rounded to a nearest integer, plus the absolute part; for the
\* fraction 0.5, the absolute part -1 and the dimension 101 it is 49.
C23_CoordinateRounds ==
    /\ getCoordinate(position(50, -1), 101) = 49
    /\ \A name \in Placed, i \in 1..4 :
           LET p == VIEW_POSITIONS[name][i]
               d == 100 * (rects[name][i] - p.abs) - p.pct * Dimension(i)
           IN -100 <= 2 * d /\ 2 * d <= 100

\* C23: every coordinate is the integer part of the fraction times the
\* dimension, plus the absolute part; for the fraction 0.5, the absolute part
\* -1 and the dimension 101 it is 49.
C23_CoordinateTruncates ==
    /\ getCoordinate(position(50, -1), 101) = 49
    /\ \A name \in Placed, i \in 1..4 :
           LET p == VIEW_POSITIONS[name][i]
               c == rects[name][i] - p.abs
           IN 100 * c <= p.pct * Dimension(i) /\ p.pct * Dimension(i) < 100 * (c + 1)

\* in a terminal 100 lines high the "Sending request.." view, placed at the
\* fraction 0.5 with the absolute part -1 of the dimension 101, has its top at 49
C23_PopupTopAt49 ==
    /\ size[2] = 100 /\ POPUP_VIEW \in views
    /\ VIEW_POSITIONS[POPUP_VIEW][2] = position(50, -1)
    /\ rects[POPUP_VIEW][2] = 49

\* ------------------------------------------------------------------ the request file

\* the load-request dialog is open: its Enter runs LoadRequest
LoadDialogOpen == currentView = SAVE_DIALOG_VIEW /\ dialog = "loadRequest" /\ ~crashed

\* the world after Enter in the load-request dialog, the file read as file, and
\* after the closure it posted, if any, has run too
Loaded(file) ==
    LET w == LoadRequestEnter(World, file)
        posted == BagToSet(w.updates (-) updates)
    IN IF posted = {} THEN w
       ELSE LET u == CHOOSE u \in posted : TRUE IN
            ApplyUpdate([w EXCEPT !.updates = @ (-) SetToBag({u})], u)

\* loading leaves history, historyIndex and every entry as they were, and on a
\* read or decode error the five panes too
LoadKeepsHistory(file) ==
    /\ Loaded(file).history = history
    /\ Loaded(file).arrays = arrays
    /\ Loaded(file).historyIndex = historyIndex
    /\ Loaded(file).requests = requests
    /\ LoadRequestEnter(World, file).requests = requests
    /\ LoadRequestEnter(World, file).historyIndex = historyIndex
    /\ file.err # "" => (Loaded(file).buf = buf /\ LoadRequestEnter(World, file).buf = buf)

\* C24 as the specification words it: loading never modifies history,
\* historyIndex or an entry; after a successful load each of the five request
\* panes holds the file's text for that pane (none when the file has none);
\* after a read or decode error the five panes are unchanged.
C24_LoadFillsFivePanes ==
    LoadDialogOpen =>
        \A file \in LoadFiles :
            /\ LoadKeepsHistory(file)
            /\ file.err = "" =>
                  \A name \in RequestPanes :
                      Loaded(file).buf[name]
                          = (IF name \in DOMAIN file.map THEN file.map[name] ELSE <<>>)

\* C24: loading never modifies history, historyIndex or an entry; after a
\* successful load each request pane the file holds a text for holds exactly
\* that text and every other pane is unchanged; after a read or decode error
\* the five panes are unchanged.
C24_LoadFillsNamedPanes ==
    LoadDialogOpen =>
        \A file \in LoadFiles :
            /\ LoadKeepsHistory(file)
            /\ file.err = "" =>
                  \A name \in RequestPanes :
                      Loaded(file).buf[name]
                          = (IF name \in DOMAIN file.map THEN file.map[name] ELSE buf[name])

\* a file with all five texts has been loaded with two entries in the history:
\* the panes hold the file's texts, the history is as it was and the dialog is closed
C24_FullFileLoaded ==
    /\ \A name \in RequestPanes : buf[name] = FullFile.map[name]
    /\ history.len = 2 /\ historyIndex = 1
    /\ OpenPopups = {} /\ ~crashed

\* ------------------------------------------------------------------ the index of the history

\* C25: whenever the history is not empty, 0 <= historyIndex < len(history),
\* however the request goroutines interleave with restore and clearHistory.
C25_IndexInRange ==
    history.len > 0 => (0 <= historyIndex /\ historyIndex < history.len)

\* the closure of PrintBody has indexed a history that is not empty out of its
\* range, and the program has panicked
C25_PrintBodyOutOfRange ==
    /\ crashed
    /\ history.len > 0
    /\ historyIndex < 0 \/ historyIndex >= history.len

\* ------------------------------------------------------------------ the append and the entries

\* a goroutine has appended its request and has not yet set historyIndex
HalfAppended == \E id \in DOMAIN workers : workers[id].pc = "index"

\* C26: the append of a completed request is atomic for the event loop: no
\* step of the event loop is taken from a state in which the new entry is in
\* the history and historyIndex is still to be set.
C26_AppendIsAtomic ==
    [][HalfAppended => GoroutineStep]_vars

\* the requests the history holds
InHistory == {HistoryAt(World, i) : i \in 0..(history.len - 1)}

\* C27: once a Request is in the history none of its fields is written again.
C27_EntriesAreReadOnly ==
    [][\A id \in InHistory : requests'[id] = requests[id]]_vars

\* ------------------------------------------------------------------ the outcome of a submission

\* the error messages the goroutine id posts in this step
PostedNow(id) ==
    {u \in BagToSet(updates' (-) updates) : u.kind = "print" /\ u.id = id}

\* C28: a submission that ends has produced exactly one outcome: its entry in
\* the history, or one error message for the response-body pane; none ends
\* with neither, the multipart paths included.
C28_OneOutcome ==
    [][\A id \in DOMAIN workers :
           (workers[id].pc # "done" /\ id \in DOMAIN workers' /\ workers'[id].pc = "done")
           => IF id \in appended'
              THEN PostedNow(id) = {}
              ELSE Cardinality(PostedNow(id)) = 1]_vars

\* a multipart submission whose data text does not parse has ended: no entry,
\* no message posted or shown
C28_SilentEnd ==
    \E id \in DOMAIN sent :
        /\ sent[id] = MultipartSeed(<<"f", "=", "1", NL, "a", ";">>)
        /\ id \notin DOMAIN workers
        /\ id \notin appended
        /\ history.len = 0
        /\ updates = EmptyBag /\ vrb = <<>>

\* ------------------------------------------------------------------ the end of a goroutine

\* every goroutine of a submission ends
WorkersEnd ==
    \A id \in 1..MaxSubmits : (id \in DOMAIN workers) ~> (id \notin DOMAIN workers \/ crashed)

\* no goroutine of a submission is running
NoWorker == DOMAIN workers = {}

\* C29: the goroutine of every submission ends in time, the network call being
\* cut by the configured timeout, and whenever no goroutine is running the
\* "sending" popup does not exist.
C29_WorkersEndPopupGone ==
    /\ WorkersEnd
    /\ [](NoWorker => POPUP_VIEW \notin views)

\* the configuration sets no deadline and a goroutine is in its network call
C29_WaitingWithoutDeadline ==
    \E id \in DOMAIN workers :
        /\ workers[id].pc = "do"
        /\ config.Timeout = 0
        /\ POPUP_VIEW \in views

\* with a deadline set, every goroutine ends
C29_EndsUnderDeadline == (config.Timeout > 0) => WorkersEnd

\* whenever no goroutine is running the popup of the submission is gone
C29_NoWorkerNoPopup == NoWorker => POPUP_VIEW \notin views

\* ------------------------------------------------------------------ the query sent

\* the values of key k in the parsed query m, none when m has no such key
ValuesOf(m, k) == IF k \in DOMAIN m THEN m[k] ELSE <<>>

\* the submissions whose goroutine has built the query, with the query of the
\* URL, the pairs of the params pane and the query sent parsed back
Merges ==
    {[U |-> UrlQuery(UrlParse(TrimSpace(sent[id][URL_VIEW]))),
      P |-> ParseQuery(Replace(TrimSpace(sent[id][URL_PARAMS_VIEW]), NL, "&")).vals,
      R |-> ParseQuery(requests[id].GetParams).vals] :
        id \in {i \in DOMAIN sent :
                   /\ ~UrlParseFails(TrimSpace(sent[i][URL_VIEW]))
                   /\ ~ParseQuery(Replace(TrimSpace(sent[i][URL_PARAMS_VIEW]), NL, "&")).err}}

\* C30: the query sent is the query of the URL with the pairs of the params
\* pane added: every key and value of the URL is kept, and a params-pane key the
\* URL has too adds its values after the URL's instead of replacing them.
C30_QueryIsMerged ==
    \A m \in Merges :
        /\ DOMAIN m.R = DOMAIN m.U \cup DOMAIN m.P
        /\ \A k \in DOMAIN m.R : m.R[k] = ValuesOf(m.U, k) \o ValuesOf(m.P, k)

\* the params pane has the key a twice, with 2 and 1: one value "21" is sent
C30_RepeatedKeyJoined ==
    \E id \in DOMAIN sent :
        /\ sent[id][URL_VIEW] = <<"http://h", "?", "a", "=", "1">>
        /\ sent[id][URL_PARAMS_VIEW] = <<"a", "=", "2", NL, "a", "=", "1">>
        /\ requests[id].GetParams = <<"a", "=", "1", "&", "a", "=", "2", "1">>

\* when no key is twice in the params pane the query sent is the merge
C30_MergedWhenKeysDiffer ==
    \A m \in Merges :
        (\A k \in DOMAIN m.P : Len(m.P[k]) = 1)
        => /\ DOMAIN m.R = DOMAIN m.U \cup DOMAIN m.P
           /\ \A k \in DOMAIN m.R : m.R[k] = ValuesOf(m.U, k) \o ValuesOf(m.P, k)

\* ------------------------------------------------------------------ the focus cycle

\* n NextView commands in a row
RECURSIVE NextViews(_, _)
NextViews(w, n) == IF n = 0 THEN w ELSE NextViews(NextView(w), n - 1)

\* the worlds a focus command leaves
Refocused ==
    {NextView(World), PrevView(World)} \cup {setViewByName(World, VIEWS[i]) : i \in 1..Len(VIEWS)}

\* C39: viewIndex stays within 0..len(VIEWS)-1 and the focus commands go round
\* the panes: PrevView undoes NextView and NextView undoes PrevView, len(VIEWS)
\* NextView commands in a row come back to the pane they started from, and
\* every focus command closes the popup that is open.
C39_FocusIsACycle ==
    /\ viewIndex \in 0..(Len(VIEWS) - 1)
    /\ ~crashed =>
          /\ PrevView(NextView(World)).viewIndex = viewIndex
          /\ PrevView(NextView(World)).currentView = VIEWS[viewIndex + 1]
          /\ NextView(PrevView(World)).viewIndex = viewIndex
          /\ NextView(PrevView(World)).currentView = VIEWS[viewIndex + 1]
          /\ NextView(World).viewIndex # viewIndex
          /\ NextViews(World, Len(VIEWS)).viewIndex = viewIndex
          /\ NextViews(World, Len(VIEWS)).currentView = VIEWS[viewIndex + 1]
          /\ \A w \in Refocused :
                 /\ w.views \cap PopupNames = {}
                 /\ w.currentPopup = ""
                 /\ w.currentView = VIEWS[w.viewIndex + 1]

\* PrevView has gone round from the first pane to the last, and the help popup
\* is open there: the next focus command wraps and has a popup to close
C39_LastPaneWithPopup ==
    /\ viewIndex = Len(VIEWS) - 1
    /\ OpenPopups = {HELP_VIEW} /\ currentView = HELP_VIEW
    /\ ~crashed

\* ------------------------------------------------------------------ the rectangle of a popup

\* |a - b| <= 1
Near(a, b) == a - b \in {-1, 0, 1}

\* C35: on a terminal of at least 60x20 the popup CreatePopupView makes, for any
\* width and height asked, is no wider than the terminal less 4 and no higher
\* than the terminal less 4 (plus the line its height always has), is centred,
\* and lies on the screen: 0 <= x0 < x1 <= width - 1, 0 <= y0 < y1 <= height - 1.
C35_PopupRectOnScreen ==
    /\ ~TooSmall(size) => ~crashed
    /\ (~TooSmall(size) /\ currentPopup # "") =>
          LET r == list.rect IN
          /\ 0 <= r.x0 /\ r.x0 < r.x1 /\ r.x1 <= size[1] - 1
          /\ 0 <= r.y0 /\ r.y0 < r.y1 /\ r.y1 <= size[2] - 1
          /\ r.x1 - r.x0 - 1 <= size[1] - 4
          /\ r.y1 - r.y0 - 2 <= size[2] - 4
          /\ Near(r.x0 + r.x1, size[1] - 1)
          /\ Near(r.y0 + r.y1, size[2] - 1)

\* on the terminal of 61x21 a popup asked to be wider and higher than the
\* terminal is open, cut to 57x17
C35_ClampedOnOddTerminal ==
    /\ size = <<61, 21>>
    /\ currentPopup = HELP_VIEW
    /\ list.rect = [x0 |-> 1, y0 |-> 1, x1 |-> 58, y1 |-> 19]

\* ------------------------------------------------------------------ the save and load dialogs

\* a save or load dialog has the focus
DialogOpen == currentView = SAVE_DIALOG_VIEW /\ dialog \in DialogKinds /\ ~crashed

\* the world after Enter in the dialog that is open
Entered(file, writeOk, msgLen) ==
    CASE dialog = "saveResponse" -> SaveResponseEnter(World, writeOk, msgLen)
      [] dialog = "loadRequest" -> LoadRequestEnter(World, file)
      [] dialog = "saveRequest" -> SaveRequestEnter(World, writeOk, msgLen)

\* C37: when the file of the save-request command cannot be written, Enter in
\* the dialog shows the failure in the save-result popup and the session goes
\* on: the process does not end.
C37_FailedWriteReported ==
    (DialogOpen /\ dialog = "saveRequest") =>
        \A msgLen \in MsgLens :
            LET w == SaveRequestEnter(World, FALSE, msgLen) IN
            /\ ~w.crashed
            /\ w.currentPopup = SAVE_RESULT_VIEW
            /\ SAVE_RESULT_VIEW \in w.views

\* the process has ended with the save-request dialog on the screen
C37_EndedInSaveRequest ==
    /\ crashed
    /\ dialog = "saveRequest" /\ currentView = SAVE_DIALOG_VIEW
    /\ SAVE_RESULT_VIEW \notin views

\* C38: Enter in a save-response, save-request or load-request dialog closes the
\* dialog, whatever the history holds: the save result or no popup is there
\* afterwards (unless the process has ended).
C38_EnterClosesDialog ==
    DialogOpen =>
        \A file \in LoadFiles, writeOk \in BOOLEAN, msgLen \in MsgLens :
            LET w == Entered(file, writeOk, msgLen) IN
            \/ w.crashed
            \/ /\ SAVE_DIALOG_VIEW \notin w.views
               /\ w.currentPopup \in {"", SAVE_RESULT_VIEW}

\* the save-response dialog is open and nothing has been sent: its Enter
\* returns at once and the dialog stays
C38_SaveResponseWithoutHistory ==
    /\ DialogOpen /\ dialog = "saveResponse"
    /\ history.len = 0
    /\ SaveResponseEnter(World, TRUE, 28) = World

\* ------------------------------------------------------------------ the response headers shown

\* no goroutine is running, no closure is waiting, and every submission succeeded
Quiet ==
    /\ NoWorker /\ updates = EmptyBag /\ ~crashed
    /\ failed = {}
    /\ history.len > 0 /\ historyIndex \in 0..(history.len - 1)

\* C36: when every submission has ended and every posted closure has run, the
\* response-headers pane holds the header text of the history entry at
\* historyIndex and nothing else: no text of another submission, none of a
\* restore done while a request was in flight.
C36_HeadersOfCurrentEntry ==
    Quiet => vrh = requests[HistoryAt(World, historyIndex)].ResponseHeaders

\* two submissions have ended and the pane holds the headers of both
C36_TwoHeadersShown ==
    /\ Quiet
    /\ Len(vrh) = 2 /\ vrh[1] # vrh[2]


\* ------------------------------------------------------------------ the key events

\* the key events of the model: three letters, the first event of Shift+Tab,
\* Enter, Backspace and ArrowLeft
EditKeys == {Rune("a"), Rune("c"), Rune("Z"), AltBracket,
             Key(KeyEnter), Key(KeyBackspace), Key(KeyArrowLeft)}

\* a key event that no key binding takes goes to the editor of the pane in
\* focus; Enter is bound in the url pane (submit) and in the method pane
\* (ToggleMethodList)
EditKey(ev) ==
    /\ Len(ed.events) < MaxKeys
    /\ ~(ev = Key(KeyEnter) /\ currentView \in {URL_VIEW, REQUEST_METHOD_VIEW})
    /\ Command(Handled(World, Edit(World, currentView, ev), currentView, ev))

\* the header lines of a request file: a value that begins like one header name
LoadedHeaders == <<"b", ":", SP, "c">>

\* the program starts with the default panes, or with -f and a request file
\* whose headers LoadRequest has put into the headers pane with
\* setViewTextAndCursor, the cursor behind them; the user has moved the focus
\* to any of the main panes
InitEdit ==
    \E k \in 1..Len(VIEWS), loaded \in BOOLEAN :
        LET seed == IF loaded THEN [DefaultSeed EXCEPT ![REQUEST_HEADERS_VIEW] = LoadedHeaders]
                              ELSE DefaultSeed
        IN Start([Fresh(seed) EXCEPT !.viewIndex = k - 1, !.currentView = VIEWS[k],
                                     !.ed.cursor[REQUEST_HEADERS_VIEW] = Len(seed[REQUEST_HEADERS_VIEW])],
                 [submits |-> 0, clears |-> 0], {}, {}, {}, <<>>)

NextEdit ==
    \/ \E ev \in EditKeys : EditKey(ev)
    \/ \E u \in BagToSet(updates) : RunUpdate(u)

SpecEdit == InitEdit /\ [][NextEdit]_vars

\* the events the inner editor was given while the n-th key event was handled
PassedAt(n) == SelectSeq(ed.passed, LAMBDA p : p.n = n)

\* the pane before name in the focus order
PaneBefore(name) ==
    LET i == CHOOSE j \in 1..Len(VIEWS) : VIEWS[j] = name
    IN VIEWS[((i - 2 + Len(VIEWS)) % Len(VIEWS)) + 1]

\* the n-th key event directly follows an Alt+[ that went to the same pane
AfterAltBracket(n) ==
    n > 1 /\ ed.events[n - 1].ev = AltBracket /\ ed.events[n - 1].view = ed.events[n].view

\* C32: after Alt+[ followed by an event other than Z the buffered `[` is
\* replayed to the inner editor exactly once and the detector is Idle again:
\* the inner editor is given a replayed `[` only while the event directly
\* after an Alt+[ is handled, an event that is not an Alt+[ leaves the
\* detector Idle, and the focus moves only on a Z directly after an Alt+[.
C32_ReplayedOnce ==
    \A n \in 1..Len(ed.events) :
        LET e == ed.events[n] IN
        /\ (\E i \in 1..Len(ed.passed) : ed.passed[i].n = n /\ ed.passed[i].ev = AltBracket)
               => AfterAltBracket(n)
        /\ (AfterAltBracket(n) /\ e.ev.ch # "Z")
               => Len(SelectSeq(PassedAt(n), LAMBDA p : p.ev = AltBracket)) = 1
        /\ e.ev # AltBracket => e.idle
        /\ e.after # e.view => (AfterAltBracket(n) /\ e.ev.ch = "Z")

\* an Alt+[, then an event other than Z, then one more event have been handled
C32_EventAfterReplay ==
    /\ Len(ed.events) >= 3
    /\ ed.events[1].ev = AltBracket
    /\ ed.events[2].ev = Rune("a")
    /\ ed.events[3].ev = Rune("Z")

\* C31: an Alt+[ key event is buffered without reaching the inner editor (the
\* inner editor is given nothing while it is handled, but the `[` of an Alt+[
\* directly before it), and when the very next event is the character Z the
\* focus moves to the previous pane, the detector is Idle, and the inner editor
\* is given neither `[` nor Z.
C31_BackTab ==
    \A n \in 1..Len(ed.events) :
        LET e == ed.events[n] IN
        /\ e.ev = AltBracket =>
               /\ ~e.idle
               /\ Len(PassedAt(n)) = (IF AfterAltBracket(n) THEN 1 ELSE 0)
        /\ (AfterAltBracket(n) /\ e.ev.ch = "Z") =>
               /\ e.after = PaneBefore(e.view)
               /\ e.idle
               /\ PassedAt(n) = <<>>

\* Alt+[ and then Z were given to a pane, and the focus is on the pane before it
C31_BackTabDone ==
    /\ Len(ed.events) = 2
    /\ ed.events[1].ev = AltBracket
    /\ ed.events[2].ev = Rune("Z")
    /\ ed.events[2].view = URL_VIEW
    /\ currentView = RESPONSE_BODY_VIEW
    /\ ed.passed = <<>>


\* the panes with a singleLineEditor hold no newline
OneLine == \A name \in SingleLinePanes : \A i \in 1..Len(TextOf(World, name)) : TextOf(World, name)[i] # NL

\* C34: Enter in a single-line pane is swallowed: the inner editor is given
\* nothing while it is handled and the pane's buffer and cursor are as before,
\* and whatever keys were given, no single-line pane's buffer holds a newline.
C34_EnterSwallowed ==
    /\ OneLine
    /\ \A n \in 1..Len(ed.events) :
           (ed.events[n].view \in SingleLinePanes /\ ed.events[n].ev = Key(KeyEnter)) =>
               /\ PassedAt(n) = <<>>
               /\ ed.events[n].same
               /\ ed.events[n].after = ed.events[n].view

\* a letter was typed into the search pane and Enter pressed behind it
C34_EnterInSearchPane ==
    /\ Len(ed.events) >= 2
    /\ ed.events[1].view = SEARCH_VIEW /\ ed.events[1].ev = Rune("a")
    /\ ed.events[2].view = SEARCH_VIEW /\ ed.events[2].ev = Key(KeyEnter)
    /\ search = <<"a">>

\* C40: whenever the autocomplete editor's isAutocompleting is true,
\* currentCompletions is not empty, after any sequence of key events, so the
\* Enter that accepts a completion never indexes an empty list (and the
\* program has not panicked).
C40_CompletionsWhileAutocompleting ==
    /\ ed.isAutocompleting => ed.currentCompletions # <<>>
    /\ ~crashed

\* suggestions have been shown, accepted with Enter, and shown again
C40_SuggestionsShownAgain ==
    /\ ed.isAutocompleting
    /\ AUTOCOMPLETE_VIEW \in views
    /\ \E n \in 1..Len(ed.events) :
           ed.events[n].view = REQUEST_HEADERS_VIEW /\ ed.events[n].ev = Key(KeyEnter) /\ ed.events[n].auto

\* s ends with t
HasSuffix(s, t) == Len(t) <= Len(s) /\ SubSeq(s, Len(s) - Len(t) + 1, Len(s)) = t

\* the n-th key event is an Enter given to the headers pane while suggestions show
EnterOnSuggestions(n) ==
    /\ ed.events[n].view = REQUEST_HEADERS_VIEW
    /\ ed.events[n].ev = Key(KeyEnter)
    /\ ed.events[n].auto

\* C33: on Enter while suggestions are showing in the headers pane: with
\* exactly one candidate the text left of the cursor ends with the full
\* candidate afterwards and the overlay is closed; with several candidates
\* nothing is completed (the text left of the cursor and the overlay are for
\* the inner editor to change) and the Enter is given to the inner editor.
C33_EnterOnSuggestions ==
    \A n \in 1..Len(ed.events) :
        EnterOnSuggestions(n) =>
            LET e == ed.events[n]
            IN IF Len(e.comps) = 1
               THEN /\ \E i \in 1..Len(REQUEST_HEADERS) :
                           /\ HasPrefix(REQUEST_HEADERS[i], e.sym)
                           /\ HasSuffix(e.left, REQUEST_HEADERS[i])
                    /\ ~e.overlay
               ELSE /\ PassedAt(n) = <<[view |-> e.view, ev |-> e.ev, n |-> n]>>
                    /\ e.left = <<>>

\* one candidate was showing when Enter was pressed, and the line holds it now
C33_OneCandidateCompleted ==
    /\ Len(ed.events) = 2
    /\ EnterOnSuggestions(2)
    /\ Len(ed.events[2].comps) = 1
    /\ buf[REQUEST_HEADERS_VIEW] = <<"c", "a">>
    /\ AUTOCOMPLETE_VIEW \notin views

====
